---- MODULE Spec2Model ----
(***************************************************************************)
(* Model of the paragraph completion engine of rech-editor-cobol:          *)
(* ParagraphCompletion (generate / loadCache / generateParagraphCompletion *)
(* / clearCache), the process-wide single-slot cache it keeps in two       *)
(* static fields, and the text helpers it is built on.                     *)
(*                                                                         *)
(* Text is modelled as sequences of one-character strings, so that column  *)
(* positions, prefixes and separators are computed and not assumed.        *)
(***************************************************************************)
EXTENDS Integers, Sequences, FiniteSets, TLC

VARIABLES
    cache,                \* static ParagraphCompletion.cache
    cacheSourceFileName,  \* static ParagraphCompletion.cacheSourceFileName
    created,              \* number of ParagraphCompletion instances created so far
    cacheFileName,        \* per instance: this.cacheFileName
    uri,                  \* per instance: this.uri
    currentLines,         \* per instance: this.currentLines
    lineNumber,           \* per instance: this.lineNumber
    rangeColumn,          \* per instance: this.rangeColumn
    sourceOfCompletions,  \* per instance: state of the Thenable this.sourceOfCompletions
    expandedSource,       \* per instance: state of the promise of getExpandedSource(this.uri)
    expandedBuffer,       \* per instance: the buffer that promise was fulfilled with
    loadCachePromise,     \* per instance: state of the promise returned by loadCache()
    generatePromise,      \* per instance: state of the promise returned by generate()
    items,                \* per instance: the array generate() resolved with
    branch,               \* per instance: which arm of generate()'s if was taken
    seenOwner,            \* per instance: the cacheSourceFileName generate() compared with
    documents,            \* server.ts documents: the uris of the open documents
    closedEntry,          \* the cache entry that was stored when its document was closed
    call                  \* the last direct call of a method, with arguments and result

vars == <<cache, cacheSourceFileName, created, cacheFileName, uri, currentLines,
          lineNumber, rangeColumn, sourceOfCompletions, expandedSource,
          expandedBuffer, loadCachePromise, generatePromise, items, branch,
          seenOwner, documents, closedEntry, call>>

-----------------------------------------------------------------------------
(* Bounds *)

MaxRequests == 3

\* the instances created when the class is used directly
MaxClassRequests == 2

\* the completion requests of a session in which documents are opened and closed
MaxDocumentRequests == 2

\* the lines of a buffer an index is built over in a direct call
MaxBufferLines == 3

\* the lines of each of the two buffers of a direct call that merges
MaxMergeLines == 2

\* the lines of a comment block parsed in a direct call
MaxDocLines == 3

-----------------------------------------------------------------------------
(* Characters and strings *)

NL == "\n"

CR == "\r"

\* the characters the regular expression class \s matches among those used here
WhiteSpace == {" ", "\t", NL, CR}

\* the characters the regular expression class [\w\-] matches
WordChars ==
    {"A","B","C","D","E","F","G","H","I","J","K","L","M","N","O","P","Q","R",
     "S","T","U","V","W","X","Y","Z",
     "a","b","c","d","e","f","g","h","i","j","k","l","m","n","o","p","q","r",
     "s","t","u","v","w","x","y","z",
     "0","1","2","3","4","5","6","7","8","9","_","-"}

Spaces(n) == [i \in 1..n |-> " "]

Min(S) == CHOOSE x \in S : \A y \in S : x <= y

Max(S) == CHOOSE x \in S : \A y \in S : y <= x

\* does s have prefix at position pos (1-based)
StartsWithAt(s, pos, prefix) ==
    /\ Len(s) >= pos - 1 + Len(prefix)
    /\ \A i \in 1..Len(prefix) : s[pos - 1 + i] = prefix[i]

\* String.prototype.startsWith(prefix)
StartsWith(s, prefix) == StartsWithAt(s, 1, prefix)

\* String.prototype.endsWith(suffix)
EndsWith(s, suffix) ==
    /\ Len(s) >= Len(suffix)
    /\ StartsWithAt(s, Len(s) - Len(suffix) + 1, suffix)

\* the least element of a set of positions, 0 when there is none
FirstOf(hits) == IF hits = {} THEN 0 ELSE Min(hits)

\* String.prototype.indexOf(pat), 1-based; 0 when pat does not occur
IndexOf(s, pat) ==
    FirstOf({p \in 1..(Len(s) - Len(pat) + 1) :
                \A i \in 1..Len(pat) : s[p + i - 1] = pat[i]})

\* String.prototype.includes(pat)
Includes(s, pat) == IndexOf(s, pat) # 0

\* s with the n characters at p replaced by rep; s itself when p is 0
ReplaceAt(s, p, n, rep) ==
    IF p = 0 THEN s
    ELSE SubSeq(s, 1, p - 1) \o rep \o SubSeq(s, p + n, Len(s))

\* String.prototype.replace(pat, rep) with a string pattern: first occurrence only
Replace(s, pat, rep) == ReplaceAt(s, IndexOf(s, pat), Len(pat), rep)

\* s cut to the span of the positions keep
TrimTo(s, keep) ==
    IF keep = {} THEN <<>> ELSE SubSeq(s, Min(keep), Max(keep))

\* String.prototype.trim()
Trim(s) == TrimTo(s, {i \in 1..Len(s) : s[i] \notin WhiteSpace})

\* Array.prototype.join(sep) over an array of strings
RECURSIVE Join(_, _)
Join(lines, sep) ==
    IF Len(lines) = 0 THEN <<>>
    ELSE IF Len(lines) = 1 THEN lines[1]
    ELSE lines[1] \o sep \o Join(Tail(lines), sep)

\* a line as BufferSplitter.split returns it: without the \r of a \r\n break
StripCR(raw) ==
    IF EndsWith(raw, <<CR>>) THEN SubSeq(raw, 1, Len(raw) - 1) ELSE raw

\* BufferSplitter.split: the buffer cut at every line break (\r\n or \n)
RECURSIVE SplitAt(_, _)
SplitAt(buffer, p) ==
    IF p = 0 THEN <<buffer>>
    ELSE <<StripCR(SubSeq(buffer, 1, p - 1))>>
         \o SplitAt(SubSeq(buffer, p + 1, Len(buffer)),
                    IndexOf(SubSeq(buffer, p + 1, Len(buffer)), <<NL>>))

Split(buffer) == SplitAt(buffer, IndexOf(buffer, <<NL>>))

\* Array.prototype.reverse()
Reverse(s) == [i \in 1..Len(s) |-> s[Len(s) + 1 - i]]

\* the first position from pos on that holds no character of class, Len(s) + 1
\* when the run reaches the end of s
RunEnd(s, pos, class) ==
    Min({q \in pos..(Len(s) + 1) : q = Len(s) + 1 \/ s[q] \notin class})

\* the elements of a set of numbers in increasing order
RECURSIVE Sorted(_)
Sorted(S) == IF S = {} THEN <<>> ELSE <<Min(S)>> \o Sorted(S \ {Min(S)})

-----------------------------------------------------------------------------
(* CobolDocParser *)

CommentMarker == <<"*",">">>

RechDocOpen == <<"*",">","/","*","*">>

RechDocClose == <<"*",">","*","/">>

DefaultDocOpen == <<"*",">","-",">">>

DefaultDocClose == <<"<","-","<","*">>

TagParam == <<"@","p","a","r","a","m">>

TagReturn == <<"@","r","e","t","u","r","n">>

TagThrows == <<"@","t","h","r","o","w","s">>

TagEnum == <<"@","e","n","u","m">>

TagOptional == <<"@","o","p","t","i","o","n","a","l">>

TagDefault == <<"@","d","e","f","a","u","l","t">>

TagExtends == <<"@","e","x","t","e","n","d","s">>

\* new CobolDoc(comment, params, returns, throws)
CobolDoc(comment, params, returns, throws) ==
    [comment |-> comment, params |-> params, returns |-> returns, throws |-> throws]

\* new DocElement(name, description)
DocElement(name, description) == [name |-> name, description |-> description]

\* the length of the alternative of (@param|@return|@throws) found at pos, or 0
DocTagLength(line, pos) ==
    IF StartsWithAt(line, pos, TagParam) THEN Len(TagParam)
    ELSE IF StartsWithAt(line, pos, TagReturn) THEN Len(TagReturn)
    ELSE IF StartsWithAt(line, pos, TagThrows) THEN Len(TagThrows)
    ELSE 0

\* \s([\w-]+) with the name to start at namePos
DocNameMatches(line, namePos) ==
    /\ namePos <= Len(line)
    /\ line[namePos - 1] \in WhiteSpace
    /\ line[namePos] \in WordChars

\* \s+(@param|@return|@throws)\s([\w-]+) from wsPos on, the tag being at tagPos
DocTagMatches(line, wsPos, tagPos) ==
    /\ tagPos > wsPos
    /\ tagPos <= Len(line)
    /\ DocTagLength(line, tagPos) > 0
    /\ DocNameMatches(line, tagPos + DocTagLength(line, tagPos) + 1)

\* /\s+\*>\s+(@param|@return|@throws)\s([\w-]+)\s?(.*)?/ with "*>" at p
DocElementMatches(line, p) ==
    /\ p >= 2
    /\ p + 1 <= Len(line)
    /\ line[p - 1] \in WhiteSpace
    /\ line[p] = "*"
    /\ line[p + 1] = ">"
    /\ DocTagMatches(line, p + 2, RunEnd(line, p + 2, WhiteSpace))

\* groups 2 and 3 of the match: the name from namePos to nameEnd - 1, and what
\* follows it after at most one blank
DocElementGroups(line, namePos, nameEnd) ==
    DocElement(SubSeq(line, namePos, nameEnd - 1),
               IF nameEnd <= Len(line) /\ line[nameEnd] \in WhiteSpace
               THEN SubSeq(line, nameEnd + 1, Len(line))
               ELSE SubSeq(line, nameEnd, Len(line)))

DocElementNamed(line, namePos) ==
    DocElementGroups(line, namePos, RunEnd(line, namePos, WordChars))

DocElementTagged(line, tagPos) ==
    DocElementNamed(line, tagPos + DocTagLength(line, tagPos) + 1)

\* the element of the leftmost match, "*>" being at p; none when p is 0
DocElementAt(line, p) ==
    IF p = 0 THEN <<>>
    ELSE <<DocElementTagged(line, RunEnd(line, p + 2, WhiteSpace))>>

\* CobolDocParser.createDocElementFromLine: <<element>> or <<>> (undefined)
CreateDocElementFromLine(currentLine) ==
    DocElementAt(currentLine,
                 FirstOf({p \in 2..Len(currentLine) : DocElementMatches(currentLine, p)}))

\* an update that gives up the elements collected so far when the line has
\* no element
UpdateDocElementClearing(elements, currentLine) ==
    IF CreateDocElementFromLine(currentLine) = <<>>
    THEN <<>>
    ELSE elements \o CreateDocElementFromLine(currentLine)

\* CobolDocParser.updateDocElement
UpdateDocElement(elements, currentLine) ==
    elements \o CreateDocElementFromLine(currentLine)

\* a test that leaves out /(@enum|@optional|@default|@extends)/
IsTagLineWithoutFamily(currentLine) ==
    \/ Includes(currentLine, TagParam)
    \/ Includes(currentLine, TagReturn)
    \/ Includes(currentLine, TagThrows)

\* does the line match one of /@param/, /@return/, /@throws/ and
\* /(@enum|@optional|@default|@extends)/
IsTagLine(currentLine) ==
    \/ Includes(currentLine, TagParam)
    \/ Includes(currentLine, TagReturn)
    \/ Includes(currentLine, TagThrows)
    \/ Includes(currentLine, TagEnum)
    \/ Includes(currentLine, TagOptional)
    \/ Includes(currentLine, TagDefault)
    \/ Includes(currentLine, TagExtends)

\* an append that keeps the paragraph break of an empty text
AppendCommentWithBreak(comment, currentComment) ==
    IF Len(currentComment) = 0 THEN comment \o <<NL, NL>>
    ELSE comment \o currentComment \o <<" ">>

\* extractRechDoc: the text of a line is added to the comment unless it is empty
AppendComment(comment, currentComment) ==
    IF Len(currentComment) = 0 THEN comment
    ELSE comment \o currentComment \o <<" ">>

\* extractRechDoc: a line while parsingRechDoc is true
RechDocInside(st, currentLine, extracting) ==
    [parsingRechDoc |-> TRUE,
     extractingComment |-> extracting,
     params  |-> IF Includes(currentLine, TagParam)
                 THEN UpdateDocElement(st.params, currentLine) ELSE st.params,
     returns |-> IF Includes(currentLine, TagReturn)
                 THEN UpdateDocElement(st.returns, currentLine) ELSE st.returns,
     throws  |-> IF Includes(currentLine, TagThrows)
                 THEN UpdateDocElement(st.throws, currentLine) ELSE st.throws,
     comment |-> IF extracting
                 THEN AppendComment(st.comment,
                                    Trim(Replace(currentLine, CommentMarker, <<>>)))
                 ELSE st.comment]

\* an iteration that does not leave the block at the closer
RechDocStepNeverLeaving(st, currentLine) ==
    IF StartsWith(Trim(currentLine), RechDocOpen)
    THEN [st EXCEPT !.parsingRechDoc = TRUE, !.extractingComment = TRUE]
    ELSE IF ~st.parsingRechDoc
    THEN st
    ELSE RechDocInside(st, currentLine,
                       st.extractingComment /\ ~IsTagLine(currentLine))

\* One iteration of the forEach of extractRechDoc over the parser's locals
RechDocStep(st, currentLine) ==
    IF StartsWith(Trim(currentLine), RechDocOpen)
    THEN [st EXCEPT !.parsingRechDoc = TRUE, !.extractingComment = TRUE]
    ELSE IF StartsWith(Trim(currentLine), RechDocClose) \/ ~st.parsingRechDoc
    THEN [st EXCEPT !.parsingRechDoc = FALSE]
    ELSE RechDocInside(st, currentLine,
                       st.extractingComment /\ ~IsTagLine(currentLine))

RECURSIVE RechDocFold(_, _)
RechDocFold(st, documentation) ==
    IF Len(documentation) = 0 THEN st
    ELSE RechDocFold(RechDocStep(st, Head(documentation)), Tail(documentation))

\* extractRechDoc: the result, from the locals after the last line
RechDocResult(st) == CobolDoc(st.comment, st.params, st.returns, st.throws)

\* CobolDocParser.extractRechDoc
ExtractRechDoc(documentation) ==
    RechDocResult(RechDocFold([parsingRechDoc |-> FALSE, extractingComment |-> FALSE,
                               params |-> <<>>, returns |-> <<>>, throws |-> <<>>,
                               comment |-> <<>>], documentation))

\* a test that looks for the opener at the start of the first line only
IsRechDocAtStart(documentation) ==
    /\ Len(documentation) > 0
    /\ StartsWith(Trim(documentation[1]), RechDocOpen)

\* CobolDocParser.isRechDoc
IsRechDoc(documentation) == Includes(Join(documentation, <<",">>), RechDocOpen)

\* CobolDocParser.removeDots
RECURSIVE RemoveDots(_)
RemoveDots(currentLine) ==
    IF currentLine # <<>> /\ EndsWith(currentLine, <<".">>)
    THEN RemoveDots(SubSeq(currentLine, 1, Len(currentLine) - 1))
    ELSE currentLine

\* One iteration of the forEach of extractDefaultDoc
DefaultDocStep(comment, currentLine) ==
    IF StartsWith(Trim(currentLine), DefaultDocOpen)
    THEN comment
         \o RemoveDots(Trim(Replace(Replace(currentLine, DefaultDocOpen, <<>>),
                                    DefaultDocClose, <<>>)))
         \o <<" ">>
    ELSE comment

RECURSIVE DefaultDocFold(_, _)
DefaultDocFold(comment, documentation) ==
    IF Len(documentation) = 0 THEN comment
    ELSE DefaultDocFold(DefaultDocStep(comment, Head(documentation)),
                        Tail(documentation))

\* CobolDocParser.extractDefaultDoc
ExtractDefaultDoc(documentation) ==
    CobolDoc(DefaultDocFold(<<>>, documentation), <<>>, <<>>, <<>>)

\* CobolDocParser.parseCobolDoc
ParseCobolDoc(documentation) ==
    IF IsRechDoc(documentation)
    THEN ExtractRechDoc(documentation)
    ELSE ExtractDefaultDoc(documentation)

-----------------------------------------------------------------------------
(* Map<string, CompletionItem>: the entries in insertion order *)

MapHas(m, key) == \E i \in 1..Len(m) : m[i].key = key

\* Map.prototype.set: a present key keeps its place and takes the new value
MapSet(m, key, value) ==
    IF MapHas(m, key)
    THEN [i \in 1..Len(m) |-> IF m[i].key = key
                              THEN [key |-> key, value |-> value] ELSE m[i]]
    ELSE Append(m, [key |-> key, value |-> value])

\* Map.prototype.values()
MapValues(m) == [i \in 1..Len(m) |-> m[i].value]

-----------------------------------------------------------------------------
(* Scan and ParserCobol *)

\* The offsets (1-based) of the buffer at which
\* /^\s\s\s\s\s\s\s([\w\-]+)\.(?:\s*\*\>.*)?/gm matches
ParagraphMatches(buffer) ==
    {p \in 1..(Len(buffer) - 8) :
        /\ p = 1 \/ buffer[p - 1] = NL \/ buffer[p - 1] = CR
        /\ \A i \in 0..6 : buffer[p + i] \in WhiteSpace
        /\ buffer[p + 7] \in WordChars
        /\ StartsWithAt(buffer, RunEnd(buffer, p + 8, WordChars), <<".">>)}

\* the row (0-based) of the offset p of the buffer
RowOf(buffer, p) == Cardinality({q \in 1..(p - 1) : buffer[q] = NL})

\* the iterator Scan.scan hands to the callback for a match that starts in row
Occurrence(lines, row) == [row |-> row, lineContent |-> lines[row + 1]]

\* Scan.scan: the occurrences in buffer order, each with the row the match
\* starts in and the content of that row
ScanOccurrences(buffer, lines, offsets) ==
    [k \in 1..Len(offsets) |-> Occurrence(lines, RowOf(buffer, offsets[k]))]

ScanParagraphs(buffer, lines) ==
    ScanOccurrences(buffer, lines, Sorted(ParagraphMatches(buffer)))

\* ParserCobol.getDeclaracaoParagrafo: <<name>> or <<>> (undefined)
DeclaracaoParagrafo(line, nameEnd) ==
    IF StartsWithAt(line, nameEnd, <<".">>)
    THEN <<SubSeq(line, 8, nameEnd - 1)>>
    ELSE <<>>

GetDeclaracaoParagrafo(line) ==
    IF /\ Len(line) >= 9
       /\ \A i \in 1..7 : line[i] = " "
       /\ line[8] \in WordChars
    THEN DeclaracaoParagrafo(line, RunEnd(line, 9, WordChars))
    ELSE <<>>

-----------------------------------------------------------------------------
(* ParagraphCompletion: the synchronous methods *)

\* what a line of documentation starts with
CommentStart == <<" ", " ", " ", " ", " ", " ", "*", ">">>

\* ParagraphCompletion.getElementDocumentation, before the final reverse():
\* the lines pushed while walking up from index
RECURSIVE DocumentationWalk(_, _)
DocumentationWalk(lines, index) ==
    IF index < 0 THEN <<>>
    ELSE IF StartsWith(lines[index + 1], CommentStart)
         THEN <<lines[index + 1]>> \o DocumentationWalk(lines, index - 1)
         ELSE <<>>

\* a walk that goes down from index and takes the comment lines under it
RECURSIVE DocumentationWalkDown(_, _)
DocumentationWalkDown(lines, index) ==
    IF index >= Len(lines) THEN <<>>
    ELSE IF StartsWith(lines[index + 1], CommentStart)
         THEN <<lines[index + 1]>> \o DocumentationWalkDown(lines, index + 1)
         ELSE <<>>

\* the documentation taken from under the declaration instead of above it
GetElementDocumentationBelow(lines, lineIndex) ==
    DocumentationWalkDown(lines, lineIndex + 1)

\* the documentation in the order the walk pushed it, not reversed
GetElementDocumentationUnreversed(lines, lineIndex) ==
    DocumentationWalk(lines, lineIndex - 1)

\* ParagraphCompletion.getElementDocumentation
GetElementDocumentation(lines, lineIndex) ==
    Reverse(DocumentationWalk(lines, lineIndex - 1))

\* getElementDocumentation reads lines[index] past the end of the array: the
\* first index of its loop, lineIndex - 1, is not below lines.length, the
\* element is undefined and the call of startsWith on it raises a TypeError
ReadsUndefinedLine(lines, lineIndex) ==
    lineIndex - 1 >= 0 /\ lineIndex - 1 >= Len(lines)

\* how a call ends: with a value returned or with an error thrown
Returned(value) == [threw |-> FALSE, value |-> value]

Thrown(error) == [threw |-> TRUE, error |-> error]

\* the CompletionItem createParagraphCompletion returns, cobolDoc being the
\* parsed documentation
ParagraphItem(paragraph, cobolDoc, line, column) ==
    [label |-> paragraph,
     newText |-> paragraph,
     startLine |-> line, startCharacter |-> column,
     endLine |-> line, endCharacter |-> column,
     detail |-> cobolDoc.comment,
     documentation |-> [params |-> cobolDoc.params,
                        returns |-> cobolDoc.returns,
                        throws |-> cobolDoc.throws],
     kind |-> "Method"]

\* ParagraphCompletion.createParagraphCompletion
CreateParagraphCompletion(paragraph, docArray, line, column) ==
    ParagraphItem(paragraph, ParseCobolDoc(docArray), line, column)

\* the body of the callback generateParagraphCompletion passes to Scan.scan,
\* paragraphName and docArray being computed
AddParagraph(map, paragraphName, docArray, line, column) ==
    IF paragraphName # <<>>
    THEN MapSet(map, paragraphName[1],
                CreateParagraphCompletion(paragraphName[1], docArray, line, column))
    ELSE map

\* the callback applied to the occurrences from the k-th on
RECURSIVE ScanFold(_, _, _, _, _, _)
ScanFold(map, occurrences, k, lines, line, column) ==
    IF k > Len(occurrences) THEN map
    ELSE ScanFold(AddParagraph(map,
                               GetDeclaracaoParagrafo(occurrences[k].lineContent),
                               GetElementDocumentation(lines, occurrences[k].row),
                               line, column),
                  occurrences, k + 1, lines, line, column)

\* a merge that sets every local entry, present or not
RECURSIVE MergeLocalOverriding(_, _)
MergeLocalOverriding(map, local) ==
    IF Len(local) = 0 THEN map
    ELSE MergeLocalOverriding(MapSet(map, Head(local).key, Head(local).value),
                              Tail(local))

\* a merge that forgets the local entries
MergeLocalDropping(map, local) == map

\* The merge of generateParagraphCompletion: the local entries whose key the
\* map does not have yet are added
RECURSIVE MergeLocal(_, _)
MergeLocal(map, local) ==
    IF Len(local) = 0 THEN map
    ELSE MergeLocal(
             IF ~MapHas(map, Head(local).key)
             THEN MapSet(map, Head(local).key, Head(local).value)
             ELSE map,
             Tail(local))

\* a build that does not start from a new Map but from the entries of the
\* index stored last
GenerateLocalOnCache(lines, line, column) ==
    ScanFold(cache.map, ScanParagraphs(Join(lines, <<NL>>), lines), 1, lines, line, column)

\* ParagraphCompletion.generateParagraphCompletion(lines, false)
GenerateLocal(lines, line, column) ==
    ScanFold(<<>>, ScanParagraphs(Join(lines, <<NL>>), lines), 1, lines, line, column)

\* ParagraphCompletion.generateParagraphCompletion(lines, useCache), for the
\* instance whose fields are thisLines, line and column
GenerateParagraphCompletion(lines, useCache, thisLines, line, column) ==
    MergeLocal(GenerateLocal(lines, line, column),
               IF useCache THEN GenerateLocal(thisLines, line, column) ELSE <<>>)

-----------------------------------------------------------------------------
(* The requests the editor can send *)

UriA == [dir |-> "F:/SRC", file |-> "A.CBL"]

UriB == [dir |-> "F:/SRC", file |-> "B.CBL"]

Uris == {UriA, UriB}

\* the text the editor holds of a document when a request is sent: A.CBL in
\* two versions, before and after an edit, and B.CBL; the last line is the
\* one the user is typing in
LocalOne == <<<<" "," "," "," "," "," ","*",">","-",">"," ","O","l","d","."," ","<","-","<","*">>,<<" "," "," "," "," "," "," ","P","A",".">>,<<" "," "," "," "," "," "," "," "," "," "," ","P">>>>

LocalTwo == <<<<" "," "," "," "," "," "," ","P","A",".">>,<<" "," "," "," "," "," ","*",">","-",">"," ","N","e","w","."," ","<","-","<","*">>,<<" "," "," "," "," "," "," ","P","B",".">>,<<" "," "," "," "," "," "," ","P","B">>>>

LocalThree == <<<<" "," "," "," "," "," "," ","P","A",".">>,<<" "," "," "," "," "," "," ","P","D",".">>,<<" "," "," "," "," "," "," ">>>>

Documents(u) == IF u = UriA THEN {LocalOne, LocalTwo} ELSE {LocalThree}

\* what the preprocessor answers for a uri: the source with its copies expanded
ExpandedOne == Join(<<<<" "," "," "," "," "," ","*",">","-",">"," ","C","o","p","y","."," ","<","-","<","*">>,<<" "," "," "," "," "," "," ","P","A",".">>,<<" "," "," "," "," "," "," ","P","C",".">>>>, <<NL>>)

ExpandedTwo == Join(<<<<" "," "," "," "," "," "," ","P","C",".">>,<<" "," "," "," "," "," "," ","P","D",".">>>>, <<CR, NL>>)

ExpandedBuffers(u) == IF u = UriA THEN {ExpandedOne} ELSE {ExpandedTwo}

\* the cursor of a request: at the end of the last line of the document
Cursors(lines) == {[line |-> Len(lines) - 1, column |-> Len(lines[Len(lines)])]}

\* the answers of the client to custom/sourceOfParagraphCompletions
Sources == {"local", "expanded"}

Instances == 1..MaxRequests

-----------------------------------------------------------------------------
(* Collaborators of ParagraphCompletion *)

UserName == "user"

\* server.ts buildCacheFileName: the preprocessor directory of the user and
\* the file name of the uri, without its directory
BuildCacheFileName(u) == <<"C:", "TMP", "PREPROC", UserName, u.file>>

\* CompletionUtils.findWordStartWithinLine: the column (1-based) at which the
\* word the cursor is in starts
FindWordStartWithinLine(column, currentLine) ==
    Max({0} \cup {i \in 1..column : i <= Len(currentLine) /\ currentLine[i] = " "}) + 1

\* a promise settles once: resolve and reject of a settled promise do nothing
Settle(promise, outcome) == IF promise = "pending" THEN outcome ELSE promise

\* the value of a static field that was never assigned
Undefined == <<"undefined">>

UndefinedCache == [defined |-> FALSE, map |-> <<>>]

DefinedCache(map) == [defined |-> TRUE, map |-> map]

\* no entry was in the cache when a document was closed
NoEntry == [owner |-> Undefined, cache |-> UndefinedCache]

\* no method was called directly
NoCall == [op |-> "none"]

-----------------------------------------------------------------------------
(* State machine *)

Init ==
    /\ cache = UndefinedCache
    /\ cacheSourceFileName = Undefined
    /\ created = 0
    /\ cacheFileName = [r \in Instances |-> Undefined]
    /\ uri = [r \in Instances |-> [dir |-> "", file |-> ""]]
    /\ currentLines = [r \in Instances |-> <<>>]
    /\ lineNumber = [r \in Instances |-> 0]
    /\ rangeColumn = [r \in Instances |-> 0]
    /\ sourceOfCompletions = [r \in Instances |-> "none"]
    /\ expandedSource = [r \in Instances |-> "none"]
    /\ expandedBuffer = [r \in Instances |-> <<>>]
    /\ loadCachePromise = [r \in Instances |-> "none"]
    /\ generatePromise = [r \in Instances |-> "none"]
    /\ items = [r \in Instances |-> <<>>]
    /\ branch = [r \in Instances |-> "none"]
    /\ seenOwner = [r \in Instances |-> Undefined]
    /\ documents = {}
    /\ closedEntry = NoEntry
    /\ call = NoCall

\* a lookup that forgets to compare the file name: any stored index is a hit
CacheHitAnyFile(name) == cache.defined

\* generate()'s lookup: the cache is used when it exists and is the one of the
\* file of the request
CacheHit(name) == cache.defined /\ cacheSourceFileName = name

\* generate() that asks for the expanded source at once, beside the question
\* to the client, instead of inside the callback of the answer
GenerateFetchingAtOnce(r, u, lines, cursor) ==
    LET name   == BuildCacheFileName(u)
        column == FindWordStartWithinLine(cursor.column, lines[cursor.line + 1]) - 1
    IN  /\ r = created + 1
        /\ created' = r
        /\ cacheFileName' = [cacheFileName EXCEPT ![r] = name]
        /\ uri' = [uri EXCEPT ![r] = u]
        /\ currentLines' = [currentLines EXCEPT ![r] = lines]
        /\ lineNumber' = [lineNumber EXCEPT ![r] = cursor.line]
        /\ rangeColumn' = [rangeColumn EXCEPT ![r] = column]
        /\ sourceOfCompletions' = [sourceOfCompletions EXCEPT ![r] = "pending"]
        /\ expandedSource' = [expandedSource EXCEPT ![r] = "pending"]
        /\ loadCachePromise' = [loadCachePromise EXCEPT ![r] = "pending"]
        /\ items' = [items EXCEPT ![r] = <<>>]
        /\ branch' = [branch EXCEPT ![r] = "rebuild"]
        /\ seenOwner' = [seenOwner EXCEPT ![r] = cacheSourceFileName]
        /\ generatePromise' = [generatePromise EXCEPT ![r] = Settle("pending", "resolved")]
        /\ UNCHANGED <<cache, cacheSourceFileName, expandedBuffer>>
        /\ UNCHANGED <<documents, closedEntry, call>>

\* new ParagraphCompletion(name, u, sourceOfCompletions).generate(line, column,
\* lines): loadCache() is started, and the promise is resolved at once with
\* the cached items or with the paragraphs of the lines given
GenerateWith(r, name, u, lines, cursor) ==
    LET column == FindWordStartWithinLine(cursor.column, lines[cursor.line + 1]) - 1
    IN  /\ r = created + 1
        /\ created' = r
        /\ cacheFileName' = [cacheFileName EXCEPT ![r] = name]
        /\ uri' = [uri EXCEPT ![r] = u]
        /\ currentLines' = [currentLines EXCEPT ![r] = lines]
        /\ lineNumber' = [lineNumber EXCEPT ![r] = cursor.line]
        /\ rangeColumn' = [rangeColumn EXCEPT ![r] = column]
        /\ sourceOfCompletions' = [sourceOfCompletions EXCEPT ![r] = "pending"]
        /\ loadCachePromise' = [loadCachePromise EXCEPT ![r] = "pending"]
        /\ IF CacheHit(name)
           THEN /\ items' = [items EXCEPT ![r] = MapValues(cache.map)]
                /\ branch' = [branch EXCEPT ![r] = "cache"]
           ELSE /\ items' = [items EXCEPT ![r] =
                        MapValues(GenerateParagraphCompletion(lines, FALSE, lines,
                                                              cursor.line, column))]
                /\ branch' = [branch EXCEPT ![r] = "rebuild"]
        /\ seenOwner' = [seenOwner EXCEPT ![r] = cacheSourceFileName]
        /\ generatePromise' = [generatePromise EXCEPT ![r] = Settle("pending", "resolved")]
        /\ UNCHANGED <<cache, cacheSourceFileName, expandedSource, expandedBuffer>>
        /\ UNCHANGED <<documents, closedEntry, call>>

\* server.ts onCompletion: the instance is created with the cache file name
\* built from the uri of the request
Generate(r, u, lines, cursor) ==
    GenerateWith(r, BuildCacheFileName(u), u, lines, cursor)

\* loadCache whose callback writes the file name before it asks for the
\* expanded source, the index following when the source arrives
SourceOfCompletionsFulfilledOwnerFirst(r, source) ==
    /\ r <= created
    /\ sourceOfCompletions[r] = "pending"
    /\ sourceOfCompletions' = [sourceOfCompletions EXCEPT ![r] = source]
    /\ cacheSourceFileName' = cacheFileName[r]
    /\ IF source = "local"
       THEN /\ cache' = DefinedCache(GenerateParagraphCompletion(
                            currentLines[r], FALSE, currentLines[r],
                            lineNumber[r], rangeColumn[r]))
            /\ loadCachePromise' = [loadCachePromise EXCEPT ![r] = Settle(@, "resolved")]
            /\ UNCHANGED expandedSource
       ELSE /\ expandedSource' = [expandedSource EXCEPT ![r] = "pending"]
            /\ UNCHANGED <<cache, loadCachePromise>>
    /\ UNCHANGED <<created, cacheFileName, uri, currentLines, lineNumber, rangeColumn,
                   expandedBuffer, generatePromise, items, branch, seenOwner>>
    /\ UNCHANGED <<documents, closedEntry, call>>

\* loadCache whose "local" branch does not return: the expanded source is asked
\* for whatever the client answered
SourceOfCompletionsFulfilledNoReturn(r, source) ==
    /\ r <= created
    /\ sourceOfCompletions[r] = "pending"
    /\ sourceOfCompletions' = [sourceOfCompletions EXCEPT ![r] = source]
    /\ expandedSource' = [expandedSource EXCEPT ![r] = "pending"]
    /\ IF source = "local"
       THEN /\ cache' = DefinedCache(GenerateParagraphCompletion(
                            currentLines[r], FALSE, currentLines[r],
                            lineNumber[r], rangeColumn[r]))
            /\ cacheSourceFileName' = cacheFileName[r]
            /\ loadCachePromise' = [loadCachePromise EXCEPT ![r] = Settle(@, "resolved")]
       ELSE UNCHANGED <<cache, cacheSourceFileName, loadCachePromise>>
    /\ UNCHANGED <<created, cacheFileName, uri, currentLines, lineNumber, rangeColumn,
                   expandedBuffer, generatePromise, items, branch, seenOwner>>
    /\ UNCHANGED <<documents, closedEntry, call>>

\* loadCache: the callback of this.sourceOfCompletions.then runs with the
\* answer of the client
SourceOfCompletionsFulfilled(r, source) ==
    /\ r <= created
    /\ sourceOfCompletions[r] = "pending"
    /\ sourceOfCompletions' = [sourceOfCompletions EXCEPT ![r] = source]
    /\ IF source = "local"
       THEN /\ cache' = DefinedCache(GenerateParagraphCompletion(
                            currentLines[r], FALSE, currentLines[r],
                            lineNumber[r], rangeColumn[r]))
            /\ cacheSourceFileName' = cacheFileName[r]
            /\ loadCachePromise' = [loadCachePromise EXCEPT ![r] = Settle(@, "resolved")]
            /\ UNCHANGED expandedSource
       ELSE /\ expandedSource' = [expandedSource EXCEPT ![r] = "pending"]
            /\ UNCHANGED <<cache, cacheSourceFileName, loadCachePromise>>
    /\ UNCHANGED <<created, cacheFileName, uri, currentLines, lineNumber, rangeColumn,
                   expandedBuffer, generatePromise, items, branch, seenOwner>>
    /\ UNCHANGED <<documents, closedEntry, call>>

\* loadCache whose callback also runs on rejection and goes on to ask for the
\* expanded source
SourceOfCompletionsRejectedFetching(r) ==
    /\ r <= created
    /\ sourceOfCompletions[r] = "pending"
    /\ sourceOfCompletions' = [sourceOfCompletions EXCEPT ![r] = "rejected"]
    /\ expandedSource' = [expandedSource EXCEPT ![r] = "pending"]
    /\ UNCHANGED <<cache, cacheSourceFileName, created, cacheFileName, uri,
                   currentLines, lineNumber, rangeColumn,
                   expandedBuffer, loadCachePromise, generatePromise, items, branch, seenOwner>>
    /\ UNCHANGED <<documents, closedEntry, call>>

\* loadCache: this.sourceOfCompletions rejects; then() was given no rejection
\* handler, so nothing of loadCache runs
SourceOfCompletionsRejected(r) ==
    /\ r <= created
    /\ sourceOfCompletions[r] = "pending"
    /\ sourceOfCompletions' = [sourceOfCompletions EXCEPT ![r] = "rejected"]
    /\ UNCHANGED <<cache, cacheSourceFileName, created, cacheFileName, uri,
                   currentLines, lineNumber, rangeColumn, expandedSource,
                   expandedBuffer, loadCachePromise, generatePromise, items, branch, seenOwner>>
    /\ UNCHANGED <<documents, closedEntry, call>>

\* loadCache that stores the merged index and leaves the file name of the
\* earlier owner
ExpandedSourceFulfilledKeepingOwner(r, buffer) ==
    /\ r <= created
    /\ expandedSource[r] = "pending"
    /\ expandedSource' = [expandedSource EXCEPT ![r] = "fulfilled"]
    /\ expandedBuffer' = [expandedBuffer EXCEPT ![r] = buffer]
    /\ cache' = DefinedCache(GenerateParagraphCompletion(
                    Split(buffer), TRUE, currentLines[r], lineNumber[r], rangeColumn[r]))
    /\ loadCachePromise' = [loadCachePromise EXCEPT ![r] = Settle(@, "resolved")]
    /\ UNCHANGED <<cacheSourceFileName, created, cacheFileName, uri, currentLines,
                   lineNumber, rangeColumn, sourceOfCompletions, generatePromise,
                   items, branch, seenOwner>>
    /\ UNCHANGED <<documents, closedEntry, call>>

\* loadCache: ExpandedSourceManager.getExpandedSource(this.uri) is fulfilled
\* with a buffer
ExpandedSourceFulfilled(r, buffer) ==
    /\ r <= created
    /\ expandedSource[r] = "pending"
    /\ expandedSource' = [expandedSource EXCEPT ![r] = "fulfilled"]
    /\ expandedBuffer' = [expandedBuffer EXCEPT ![r] = buffer]
    /\ cacheSourceFileName' = cacheFileName[r]
    /\ cache' = DefinedCache(GenerateParagraphCompletion(
                    Split(buffer), TRUE, currentLines[r], lineNumber[r], rangeColumn[r]))
    /\ loadCachePromise' = [loadCachePromise EXCEPT ![r] = Settle(@, "resolved")]
    /\ UNCHANGED <<created, cacheFileName, uri, currentLines, lineNumber, rangeColumn,
                   sourceOfCompletions, generatePromise, items, branch, seenOwner>>
    /\ UNCHANGED <<documents, closedEntry, call>>

\* a catch that throws the cache away when the expanded source fails
ExpandedSourceRejectedClearing(r) ==
    /\ r <= created
    /\ expandedSource[r] = "pending"
    /\ expandedSource' = [expandedSource EXCEPT ![r] = "rejected"]
    /\ loadCachePromise' = [loadCachePromise EXCEPT ![r] = Settle(@, "rejected")]
    /\ generatePromise' = [generatePromise EXCEPT ![r] = Settle(@, "rejected")]
    /\ cache' = DefinedCache(<<>>)
    /\ cacheSourceFileName' = <<>>
    /\ UNCHANGED <<created, cacheFileName, uri, currentLines, lineNumber, rangeColumn,
                   sourceOfCompletions, expandedBuffer, items, branch, seenOwner>>
    /\ UNCHANGED <<documents, closedEntry, call>>

\* loadCache: getExpandedSource rejects, loadCache's promise rejects, and the
\* catch of generate() calls reject() of generate's promise
ExpandedSourceRejected(r) ==
    /\ r <= created
    /\ expandedSource[r] = "pending"
    /\ expandedSource' = [expandedSource EXCEPT ![r] = "rejected"]
    /\ loadCachePromise' = [loadCachePromise EXCEPT ![r] = Settle(@, "rejected")]
    /\ generatePromise' = [generatePromise EXCEPT ![r] = Settle(@, "rejected")]
    /\ UNCHANGED <<cache, cacheSourceFileName, created, cacheFileName, uri,
                   currentLines, lineNumber, rangeColumn, sourceOfCompletions,
                   expandedBuffer, items, branch, seenOwner>>
    /\ UNCHANGED <<documents, closedEntry, call>>

\* ParagraphCompletion.clearCache
ClearCache ==
    /\ cache' = DefinedCache(<<>>)
    /\ cacheSourceFileName' = <<>>
    /\ UNCHANGED <<created, cacheFileName, uri, currentLines, lineNumber, rangeColumn,
                   sourceOfCompletions, expandedSource, expandedBuffer,
                   loadCachePromise, generatePromise, items, branch, seenOwner>>
    /\ UNCHANGED <<documents, closedEntry, call>>

Next ==
    \/ \E r \in Instances, u \in Uris :
           \E lines \in Documents(u) :
               \E cursor \in Cursors(lines) : Generate(r, u, lines, cursor)
    \/ \E r \in Instances, source \in Sources : SourceOfCompletionsFulfilled(r, source)
    \/ \E r \in Instances : SourceOfCompletionsRejected(r)
    \/ \E r \in Instances :
           \E buffer \in ExpandedBuffers(uri[r]) : ExpandedSourceFulfilled(r, buffer)
    \/ \E r \in Instances : ExpandedSourceRejected(r)
    \/ ClearCache

Spec == Init /\ [][Next]_vars

-----------------------------------------------------------------------------
(* The class used directly: new ParagraphCompletion(cacheFileName, uri,      *)
(* sourceOfCompletions) with any string as cacheFileName                     *)

\* the cache file names given to the constructor: the empty string and the
\* name the server builds for A.CBL
ClassNames == {<<>>, BuildCacheFileName(UriA)}

ClassNext ==
    \/ \E r \in 1..MaxClassRequests, name \in ClassNames :
           \E cursor \in Cursors(LocalOne) : GenerateWith(r, name, UriA, LocalOne, cursor)
    \/ \E r \in Instances, source \in Sources : SourceOfCompletionsFulfilled(r, source)
    \/ \E r \in Instances : SourceOfCompletionsRejected(r)
    \/ \E r \in Instances :
           \E buffer \in ExpandedBuffers(uri[r]) : ExpandedSourceFulfilled(r, buffer)
    \/ \E r \in Instances : ExpandedSourceRejected(r)
    \/ ClearCache

ClassSpec == Init /\ [][ClassNext]_vars

-----------------------------------------------------------------------------
(* The documents of the server: opened, completed in, closed *)

\* server.ts documents.onDidOpen: the document is in documents from now on;
\* nothing of ParagraphCompletion is touched
DidOpen(u) ==
    /\ u \notin documents
    /\ documents' = documents \cup {u}
    /\ UNCHANGED <<cache, cacheSourceFileName, created, cacheFileName, uri, currentLines,
                   lineNumber, rangeColumn, sourceOfCompletions, expandedSource,
                   expandedBuffer, loadCachePromise, generatePromise, items, branch,
                   seenOwner, closedEntry, call>>

\* server.ts documents.onDidClose: the folding cache, the expanded source, the
\* copy hierarchy and the cache of VariableCompletion are cleared for the uri;
\* the two static fields of ParagraphCompletion are not assigned. closedEntry
\* keeps the entry the document had in the cache at that moment
DidClose(u) ==
    /\ u \in documents
    /\ documents' = documents \ {u}
    /\ closedEntry' = IF CacheHit(BuildCacheFileName(u))
                      THEN [owner |-> cacheSourceFileName, cache |-> cache]
                      ELSE closedEntry
    /\ UNCHANGED <<cache, cacheSourceFileName, created, cacheFileName, uri, currentLines,
                   lineNumber, rangeColumn, sourceOfCompletions, expandedSource,
                   expandedBuffer, loadCachePromise, generatePromise, items, branch,
                   seenOwner, call>>

\* server.ts onCompletion: documents.get(uri) is defined, and the request is
\* handed to a new ParagraphCompletion
Completion(r, u, lines, cursor) ==
    /\ u \in documents
    /\ r <= MaxDocumentRequests
    /\ Generate(r, u, lines, cursor)

DocumentNext ==
    \/ \E u \in Uris : DidOpen(u)
    \/ \E u \in Uris : DidClose(u)
    \/ \E r \in Instances, u \in Uris :
           \E lines \in Documents(u) :
               \E cursor \in Cursors(lines) : Completion(r, u, lines, cursor)
    \/ \E r \in Instances, source \in Sources : SourceOfCompletionsFulfilled(r, source)
    \/ \E r \in Instances : SourceOfCompletionsRejected(r)
    \/ \E r \in Instances :
           \E buffer \in ExpandedBuffers(uri[r]) : ExpandedSourceFulfilled(r, buffer)
    \/ \E r \in Instances : ExpandedSourceRejected(r)

DocumentSpec == Init /\ [][DocumentNext]_vars

-----------------------------------------------------------------------------
(* Two documents with the same file name in two directories *)

UriC == [dir |-> "F:/OTHER", file |-> "A.CBL"]

FolderUris == {UriA, UriC}

\* the number of requests for the documents of the two directories
MaxFolderRequests == 2

FolderNext ==
    \/ \E r \in 1..MaxFolderRequests, u \in FolderUris :
           \E lines \in Documents(u) :
               \E cursor \in Cursors(lines) : Generate(r, u, lines, cursor)
    \/ \E r \in 1..MaxFolderRequests, source \in Sources :
           SourceOfCompletionsFulfilled(r, source)
    \/ \E r \in 1..MaxFolderRequests : SourceOfCompletionsRejected(r)
    \/ \E r \in 1..MaxFolderRequests :
           \E buffer \in ExpandedBuffers(uri[r]) : ExpandedSourceFulfilled(r, buffer)
    \/ \E r \in 1..MaxFolderRequests : ExpandedSourceRejected(r)

FolderSpec == Init /\ [][FolderNext]_vars

-----------------------------------------------------------------------------
(* The methods called directly, once, on a fresh instance *)

LinePA == <<" "," "," "," "," "," "," ","P","A",".">>

LinePB == <<" "," "," "," "," "," "," ","P","B",".">>

LineOne == <<" "," "," "," "," "," ","*",">","-",">"," ","O","n","e","."," ","<","-","<","*">>

LineTwo == <<" "," "," "," "," "," ","*",">","-",">"," ","T","w","o","."," ","<","-","<","*">>

LineBlank == <<>>

UnitLines == {LinePA, LinePB, LineOne, LineTwo, LineBlank}

\* the buffers of at most n lines
BuffersUpTo(n) == UNION {[1..k -> UnitLines] : k \in 0..n}

\* a paragraph, a comment line under it, and a second paragraph
ScenarioBuffer == <<<<" "," "," "," "," "," "," ","P","A","R","A","-","A",".">>,<<" "," "," "," "," "," ","*",">","-",">"," ","D","o","e","s"," ","A","."," ","<","-","<","*">>,<<" "," "," "," "," "," "," ","P","A","R","A","-","B",".">>>>

\* this.generateParagraphCompletion(lines, useCache) on an instance whose
\* currentLines are thisLines and whose position is line 0, column 7
GenerateParagraphCompletionCall(lines, useCache, thisLines) ==
    /\ call = NoCall
    /\ call' = [op |-> "generateParagraphCompletion",
                lines |-> lines, useCache |-> useCache, currentLines |-> thisLines,
                lineNumber |-> 0, rangeColumn |-> 7,
                result |-> GenerateParagraphCompletion(lines, useCache, thisLines, 0, 7)]
    /\ UNCHANGED <<cache, cacheSourceFileName, created, cacheFileName, uri, currentLines,
                   lineNumber, rangeColumn, sourceOfCompletions, expandedSource,
                   expandedBuffer, loadCachePromise, generatePromise, items, branch,
                   seenOwner, documents, closedEntry>>

DocOpener == <<" "," "," "," "," "," ","*",">","/","*","*">>

DocSummary == <<" "," "," "," "," "," ","*",">"," ","S","u","m",".">>

DocFreeform == <<" "," "," "," "," "," ","*",">","-",">"," ","O","n","e","."," ","<","-","<","*">>

DocParam == <<" "," "," "," "," "," ","*",">"," ","@","p","a","r","a","m"," ","a"," ","b">>

DocCloser == <<" "," "," "," "," "," ","*",">","*","/">>

\* a freeform line that has the opener of a structured block in its text
DocFreeformWithOpener == <<" "," "," "," "," "," ","*",">","-",">"," ","S","e","e"," ","*",">","/","*","*"," ","<","-","<","*">>

DocLines == {DocOpener, DocSummary, DocFreeform, DocParam, DocCloser,
             DocFreeformWithOpener}

\* the comment blocks of at most n lines
BlocksUpTo(n) == UNION {[1..k -> DocLines] : k \in 0..n}

\* cobolDocParser.parseCobolDoc(documentation)
ParseCobolDocCall(documentation) ==
    /\ call = NoCall
    /\ call' = [op |-> "parseCobolDoc",
                documentation |-> documentation,
                result |-> ParseCobolDoc(documentation)]
    /\ UNCHANGED <<cache, cacheSourceFileName, created, cacheFileName, uri, currentLines,
                   lineNumber, rangeColumn, sourceOfCompletions, expandedSource,
                   expandedBuffer, loadCachePromise, generatePromise, items, branch,
                   seenOwner, documents, closedEntry>>

\* the largest cursor column a keyword completion is called with
MaxColumn == 52

\* CompletionUtils.fillMissingSpaces(targetColumn, referenceColumn): the spaces
\* that fill the columns after referenceColumn and before targetColumn, and a
\* single space when there is no such column
FillMissingSpaces(targetColumn, referenceColumn) ==
    IF targetColumn - referenceColumn - 1 < 1
    THEN Spaces(1)
    ELSE Spaces(targetColumn - referenceColumn - 1)

\* the texts CompletionUtils.separatorForColumn(column) can return
Separators == {<<>>, <<".">>}

\* ExitParagraphCompletion.generate dropping the cursor column
ExitParagraphTextAtMargin(column, separator) ==
    <<"E","X","I","T">> \o FillMissingSpaces(35, 3)
        \o <<"P","A","R","A","G","R","A","P","H">> \o separator

\* the insertText of ExitParagraphCompletion.generate(_line, column, _lines)
ExitParagraphText(column, separator) ==
    <<"E","X","I","T">> \o FillMissingSpaces(35, column + 3)
        \o <<"P","A","R","A","G","R","A","P","H">> \o separator

\* the insertText of PerformCompletion.generate(_line, column, _lines)
PerformText(column, separator) ==
    <<"p","e","r","f","o","r","m">> \o FillMissingSpaces(35, column + 6)
        \o <<"$","{","0","}">> \o separator

\* new ExitParagraphCompletion().generate(line, column, lines)
ExitParagraphCompletionCall(column, separator) ==
    /\ call = NoCall
    /\ call' = [op |-> "exitParagraph",
                column |-> column,
                separator |-> separator,
                result |-> ExitParagraphText(column, separator)]
    /\ UNCHANGED <<cache, cacheSourceFileName, created, cacheFileName, uri, currentLines,
                   lineNumber, rangeColumn, sourceOfCompletions, expandedSource,
                   expandedBuffer, loadCachePromise, generatePromise, items, branch,
                   seenOwner, documents, closedEntry>>

\* new PerformCompletion().generate(line, column, lines)
PerformCompletionCall(column, separator) ==
    /\ call = NoCall
    /\ call' = [op |-> "perform",
                column |-> column,
                separator |-> separator,
                result |-> PerformText(column, separator)]
    /\ UNCHANGED <<cache, cacheSourceFileName, created, cacheFileName, uri, currentLines,
                   lineNumber, rangeColumn, sourceOfCompletions, expandedSource,
                   expandedBuffer, loadCachePromise, generatePromise, items, branch,
                   seenOwner, documents, closedEntry>>

\* the insertText of ExitPerformCompletion.generate(_line, column, _lines)
ExitPerformText(column, separator) ==
    <<"E","X","I","T">> \o FillMissingSpaces(35, column + 3)
        \o <<"P","E","R","F","O","R","M">> \o separator

\* SetCompletion.generate taking the reference column of a four-letter keyword
SetTextAsExit(column) ==
    <<"s","e","t">> \o FillMissingSpaces(20, column + 3) \o <<"$","{","0","}">>

\* the insertText of SetCompletion.generate(_line, column, _lines)
SetText(column) ==
    <<"s","e","t">> \o FillMissingSpaces(20, column + 2) \o <<"$","{","0","}">>

\* the values of the enumeration Type of CobolVariable
Types == {"Alphanumeric", "Integer", "Decimal"}

\* the variables CobolVariable.parseLine can return, by what ValueCompletion
\* reads of them: getType(), isDisplay(), isAllowNegative()
CobolVariables == [type : Types, display : BOOLEAN, allowNegative : BOOLEAN]

VALUE_COLUMN_DECLARATION == 51

ValueIsSpaces ==
    <<"v","a","l","u","e"," ","i","s"," ","$","{","1",":","s","p","a","c","e","s","}">>

ValueIsZeros ==
    <<"v","a","l","u","e"," ","i","s"," ","$","{","1",":","z","e","r","o","s","}">>

Comp == <<" ","$","{","2",":","c","o","m","p","}">>

CompX == <<" ","$","{","2",":","c","o","m","p","-","x","}">>

\* ValueCompletion.createCompIfNeeded choosing by the type alone
CreateCompIfNeededByType(variable) ==
    IF ~variable.display
    THEN IF variable.type = "Decimal" THEN Comp ELSE CompX
    ELSE <<>>

\* ValueCompletion.createCompIfNeeded(variable)
CreateCompIfNeeded(variable) ==
    IF ~variable.display
    THEN IF variable.type = "Decimal" \/ variable.allowNegative THEN Comp ELSE CompX
    ELSE <<>>

\* ValueCompletion.generateTextFromVariable(variable, column)
GenerateTextFromVariable(variable, column) ==
    FillMissingSpaces(VALUE_COLUMN_DECLARATION, column - 1)
        \o (IF variable.type = "Alphanumeric"
            THEN ValueIsSpaces
            ELSE ValueIsZeros \o CreateCompIfNeeded(variable))
        \o <<".">>

\* new ExitPerformCompletion().generate(line, column, lines)
ExitPerformCompletionCall(column, separator) ==
    /\ call = NoCall
    /\ call' = [op |-> "exitPerform",
                column |-> column,
                separator |-> separator,
                result |-> ExitPerformText(column, separator)]
    /\ UNCHANGED <<cache, cacheSourceFileName, created, cacheFileName, uri, currentLines,
                   lineNumber, rangeColumn, sourceOfCompletions, expandedSource,
                   expandedBuffer, loadCachePromise, generatePromise, items, branch,
                   seenOwner, documents, closedEntry>>

\* new SetCompletion().generate(line, column, lines)
SetCompletionCall(column) ==
    /\ call = NoCall
    /\ call' = [op |-> "set",
                column |-> column,
                result |-> SetText(column)]
    /\ UNCHANGED <<cache, cacheSourceFileName, created, cacheFileName, uri, currentLines,
                   lineNumber, rangeColumn, sourceOfCompletions, expandedSource,
                   expandedBuffer, loadCachePromise, generatePromise, items, branch,
                   seenOwner, documents, closedEntry>>

\* new ValueCompletion().generate(line, column, lines), the line parsed to variable
ValueCompletionCall(variable, column) ==
    /\ call = NoCall
    /\ call' = [op |-> "value",
                variable |-> variable,
                column |-> column,
                result |-> GenerateTextFromVariable(variable, column)]
    /\ UNCHANGED <<cache, cacheSourceFileName, created, cacheFileName, uri, currentLines,
                   lineNumber, rangeColumn, sourceOfCompletions, expandedSource,
                   expandedBuffer, loadCachePromise, generatePromise, items, branch,
                   seenOwner, documents, closedEntry>>

\* a comment with a margin of seven spaces
LineInset == <<" "," "," "," "," "," "," ","*",">"," ","X">>

WalkLines == UnitLines \cup {LineInset}

\* the largest buffer getElementDocumentation is called with
MaxWalkLines == 4

WalkBuffers == UNION {[1..k -> WalkLines] : k \in 0..MaxWalkLines}

\* this.getElementDocumentation(lines, lineIndex)
GetElementDocumentationCall(lines, lineIndex) ==
    /\ call = NoCall
    /\ call' = [op |-> "getElementDocumentation",
                lines |-> lines,
                lineIndex |-> lineIndex,
                result |-> IF ReadsUndefinedLine(lines, lineIndex)
                           THEN Thrown("TypeError")
                           ELSE Returned(GetElementDocumentation(lines, lineIndex))]
    /\ UNCHANGED <<cache, cacheSourceFileName, created, cacheFileName, uri, currentLines,
                   lineNumber, rangeColumn, sourceOfCompletions, expandedSource,
                   expandedBuffer, loadCachePromise, generatePromise, items, branch,
                   seenOwner, documents, closedEntry>>

\* a name and a period after a margin of six spaces
LineSix == <<" "," "," "," "," "," ","P","C",".">>

\* a name and a period after a margin of eight spaces
LineEight == <<" "," "," "," "," "," "," "," ","P","D",".">>

\* a name after a margin of seven spaces, a space before its period
LineNoDot == <<" "," "," "," "," "," "," ","P","E"," ",".">>

ScanLines == {LinePA, LineSix, LineEight, LineNoDot, LineBlank}

\* the largest buffer the scan is called with
MaxScanLines == 3

ScanBuffers == UNION {[1..k -> ScanLines] : k \in 0..MaxScanLines}

\* new Scan(lines.join("\n")).scan(pattern, callback) as generateParagraphCompletion
\* calls it: the occurrences the callback is called with, and the index built
ScanCall(lines) ==
    /\ call = NoCall
    /\ call' = [op |-> "scan",
                lines |-> lines,
                result |-> ScanParagraphs(Join(lines, <<NL>>), lines),
                items |-> GenerateLocal(lines, 0, 7)]
    /\ UNCHANGED <<cache, cacheSourceFileName, created, cacheFileName, uri, currentLines,
                   lineNumber, rangeColumn, sourceOfCompletions, expandedSource,
                   expandedBuffer, loadCachePromise, generatePromise, items, branch,
                   seenOwner, documents, closedEntry>>

\* the lines of structured blocks
DocMore == <<" "," "," "," "," "," ","*",">"," ","M","o","r","e">>

DocBlank == <<" "," "," "," "," "," ","*",">">>

DocReturn == <<" "," "," "," "," "," ","*",">"," ","@","r","e","t","u","r","n"," ","r"," ","o","f">>

DocThrows == <<" "," "," "," "," "," ","*",">"," ","@","t","h","r","o","w","s"," ","t">>

DocEnum == <<" "," "," "," "," "," ","*",">"," ","@","e","n","u","m"," ","e">>

DocParamNoName == <<" "," "," "," "," "," ","*",">"," ","@","p","a","r","a","m">>

DocParamAndReturn == <<" "," "," "," "," "," ","*",">"," ","@","p","a","r","a","m"," ","c"," ","@","r","e","t","u","r","n"," ","d">>

RechBodyLines == {DocSummary, DocMore, DocBlank, DocParam, DocReturn, DocThrows, DocEnum,
                  DocParamNoName, DocParamAndReturn, DocCloser, DocOpener}

\* what comes before the body of a block: nothing, a line, the opener
RechPreambles == {<<>>, <<DocParam>>, <<DocOpener>>, <<DocParam, DocOpener>>}

\* the most lines after the preamble of a block
MaxBodyLines == 3

RechDocs ==
    {pre \o body : pre \in RechPreambles,
                   body \in UNION {[1..k -> RechBodyLines] : k \in 0..MaxBodyLines}}

\* this.extractRechDoc(documentation)
ExtractRechDocCall(documentation) ==
    /\ call = NoCall
    /\ call' = [op |-> "extractRechDoc",
                documentation |-> documentation,
                result |-> ExtractRechDoc(documentation)]
    /\ UNCHANGED <<cache, cacheSourceFileName, created, cacheFileName, uri, currentLines,
                   lineNumber, rangeColumn, sourceOfCompletions, expandedSource,
                   expandedBuffer, loadCachePromise, generatePromise, items, branch,
                   seenOwner, documents, closedEntry>>

\* the lines of freeform comments
DocDots == <<" "," "," "," "," "," ","*",">","-",">"," ","T","w","o",".",".","."," ","<","-","<","*">>

DocOpenOnly == <<" "," "," "," "," "," ","*",">","-",">"," ","T","h","r","e","e">>

DocClosedTwice == <<" "," "," "," "," "," ","*",">","-",">"," ","a"," ","<","-","<","*"," ","b"," ","<","-","<","*">>

FreeformLines == {DocFreeform, DocDots, DocOpenOnly, DocClosedTwice, DocSummary, DocBlank}

\* the most lines of a freeform comment
MaxFreeformLines == 3

FreeformDocs == UNION {[1..k -> FreeformLines] : k \in 0..MaxFreeformLines}

\* this.extractDefaultDoc(documentation)
ExtractDefaultDocCall(documentation) ==
    /\ call = NoCall
    /\ call' = [op |-> "extractDefaultDoc",
                documentation |-> documentation,
                result |-> ExtractDefaultDoc(documentation)]
    /\ UNCHANGED <<cache, cacheSourceFileName, created, cacheFileName, uri, currentLines,
                   lineNumber, rangeColumn, sourceOfCompletions, expandedSource,
                   expandedBuffer, loadCachePromise, generatePromise, items, branch,
                   seenOwner, documents, closedEntry>>

\* FinallyFormatter

UpperCase == <<"A","B","C","D","E","F","G","H","I","J","K","L","M","N","O","P","Q","R","S","T","U","V","W","X","Y","Z">>

LowerCase == <<"a","b","c","d","e","f","g","h","i","j","k","l","m","n","o","p","q","r","s","t","u","v","w","x","y","z">>

\* the lower-case letter of the upper-case letter at place n of the alphabet,
\* the character itself when n is 0
LowerOf(char, n) == IF n = 0 THEN char ELSE LowerCase[n]

\* String.prototype.toLowerCase()
ToLowerCase(text) ==
    [i \in 1..Len(text) |->
        LowerOf(text[i], FirstOf({n \in 1..Len(UpperCase) : UpperCase[n] = text[i]}))]

\* CompletionUtils.isTheParagraphOrMethodDeclaration(line): a name and a
\* period at the margin of a declaration
IsTheParagraphOrMethodDeclaration(line) == GetDeclaracaoParagrafo(line) # <<>>

\* CompletionUtils.countSpacesAtBeginning(line)
CountSpacesAtBeginning(line) == RunEnd(line, 1, {" "}) - 1

EndTryWord == <<"e","n","d","-","t","r","y">>

TryWord == <<"t","r","y">>

\* findStartColumn: depth after the tests of line i (0-based)
DepthAfter(depth, text) ==
    IF StartsWith(ToLowerCase(Trim(text)), EndTryWord) THEN depth + 1
    ELSE IF StartsWith(ToLowerCase(Trim(text)), TryWord) THEN depth - 1
    ELSE depth

\* the loop of findStartColumn from index i on, going up while i > stop; the
\* code has stop = 0
RECURSIVE FindStartLoop(_, _, _, _, _)
FindStartLoop(lines, line, i, depth, stop) ==
    IF ~(i > stop) THEN CountSpacesAtBeginning(lines[line + 1])
    ELSE IF IsTheParagraphOrMethodDeclaration(lines[i + 1])
         THEN CountSpacesAtBeginning(lines[line + 1])
    ELSE IF DepthAfter(depth, lines[i + 1]) < 0
         THEN CountSpacesAtBeginning(lines[i + 1])
    ELSE FindStartLoop(lines, line, i - 1, DepthAfter(depth, lines[i + 1]), stop)

\* FinallyFormatter.findStartColumn(line, lines)
FindStartColumn(line, lines) == FindStartLoop(lines, line, line, 0, 0)

LineTry == <<" "," "," ","t","r","y">>

LineTryUpper == <<" "," "," "," "," "," ","T","R","Y">>

LineEndTry == <<" "," "," "," "," "," ","e","n","d","-","t","r","y">>

LineStatement == <<" "," "," "," "," "," "," "," "," ","x">>

FormatLines == {LineTry, LineTryUpper, LineEndTry, LineStatement, LinePA}

\* the largest document findStartColumn is called with
MaxFormatLines == 4

FormatBuffers == UNION {[1..k -> FormatLines] : k \in 1..MaxFormatLines}

\* new FinallyFormatter().findStartColumn(line, lines)
FindStartColumnCall(line, lines) ==
    /\ call = NoCall
    /\ call' = [op |-> "findStartColumn",
                line |-> line,
                lines |-> lines,
                result |-> FindStartColumn(line, lines)]
    /\ UNCHANGED <<cache, cacheSourceFileName, created, cacheFileName, uri, currentLines,
                   lineNumber, rangeColumn, sourceOfCompletions, expandedSource,
                   expandedBuffer, loadCachePromise, generatePromise, items, branch,
                   seenOwner, documents, closedEntry>>

UnitNext ==
    \/ \E lines \in BuffersUpTo(MaxBufferLines) \cup {ScenarioBuffer} :
           GenerateParagraphCompletionCall(lines, FALSE, lines)
    \/ \E lines \in BuffersUpTo(MaxMergeLines), thisLines \in BuffersUpTo(MaxMergeLines) :
           GenerateParagraphCompletionCall(lines, TRUE, thisLines)
    \/ \E documentation \in BlocksUpTo(MaxDocLines) : ParseCobolDocCall(documentation)
    \/ \E column \in 0..MaxColumn, separator \in Separators :
           ExitParagraphCompletionCall(column, separator)
    \/ \E column \in 0..MaxColumn, separator \in Separators :
           PerformCompletionCall(column, separator)
    \/ \E column \in 0..MaxColumn, separator \in Separators :
           ExitPerformCompletionCall(column, separator)
    \/ \E column \in 0..MaxColumn : SetCompletionCall(column)
    \/ \E variable \in CobolVariables, column \in 0..MaxColumn :
           ValueCompletionCall(variable, column)
    \/ \E lines \in WalkBuffers :
           \E lineIndex \in (-1)..(Len(lines) + 2) :
               GetElementDocumentationCall(lines, lineIndex)
    \/ \E lines \in ScanBuffers : ScanCall(lines)
    \/ \E documentation \in RechDocs : ExtractRechDocCall(documentation)
    \/ \E documentation \in FreeformDocs : ExtractDefaultDocCall(documentation)
    \/ \E lines \in FormatBuffers :
           \E line \in 0..(Len(lines) - 1) : FindStartColumnCall(line, lines)

UnitSpec == Init /\ [][UnitNext]_vars

-----------------------------------------------------------------------------
(* What the claims speak of *)

Created == 1..created

\* loadCache() of the instance has written the cache and resolved
Loaded(r) == loadCachePromise[r] = "resolved"

\* the index generate() builds from the open document of the instance
LocalIndex(r) ==
    GenerateParagraphCompletion(currentLines[r], FALSE, currentLines[r],
                                lineNumber[r], rangeColumn[r])

\* the index of the expanded source of the instance, merged with the local one
MergedIndex(r) ==
    GenerateParagraphCompletion(Split(expandedBuffer[r]), TRUE, currentLines[r],
                                lineNumber[r], rangeColumn[r])

\* the index the resolution of the instance is to store
ResolvedIndex(r) ==
    IF sourceOfCompletions[r] = "local" THEN LocalIndex(r) ELSE MergedIndex(r)

\* the instance took a step
Stepped(r) ==
    \/ sourceOfCompletions'[r] # sourceOfCompletions[r]
    \/ expandedSource'[r] # expandedSource[r]
    \/ loadCachePromise'[r] # loadCachePromise[r]
    \/ generatePromise'[r] # generatePromise[r]

-----------------------------------------------------------------------------
(* Claims *)

\* C1: when the mode asks for expansion and the expansion provider rejects, the
\* promise generate() returned is rejected (it is not resolved with items).
C1_RejectedExpansionRejectsGenerate ==
    \A r \in Instances :
        expandedSource[r] = "rejected" => generatePromise[r] = "rejected"

\* C2: a resolution that fails writes nothing: no step of an instance, other
\* than the one that resolves its loadCache(), changes the cached index or the
\* cached file name; in particular the step in which the expansion rejects.
C2_FailedResolutionLeavesCache ==
    [][\A r \in Instances :
          (Stepped(r) /\ loadCachePromise'[r] # "resolved")
              => (cache' = cache /\ cacheSourceFileName' = cacheSourceFileName)]_vars

\* C2 witness: the expansion of a request was rejected and the entry an earlier
\* request stored for the same file is still there, index and name.
C2_Witness ==
    \E r, w \in Created :
        /\ w < r
        /\ expandedSource[r] = "rejected"
        /\ Loaded(w)
        /\ cacheFileName[w] = cacheFileName[r]
        /\ cacheSourceFileName = cacheFileName[r]
        /\ cache = DefinedCache(ResolvedIndex(w))
        /\ Len(cache.map) > 0

\* C3: the resolution of a request for a file takes the entry over (whatever
\* file owned it, the cache is then that file's and no other file hits it), and
\* a request that finds the entry owned by another file is not served from the
\* cache: it gets the index rebuilt from its own document.
C3_OtherFileEvictsAndForcesRebuild ==
    [][\A r \in Instances :
          /\ (~Loaded(r) /\ Loaded(r)')
                => /\ cacheSourceFileName' = cacheFileName[r]
                   /\ \A u \in Uris :
                         BuildCacheFileName(u) # cacheFileName[r]
                             => ~(/\ cache'.defined
                                  /\ cacheSourceFileName' = BuildCacheFileName(u))
          /\ (created' = r /\ created = r - 1
                /\ cacheSourceFileName # cacheFileName'[r])
                => /\ branch'[r] = "rebuild"
                   /\ items'[r] = MapValues(GenerateParagraphCompletion(
                                       currentLines'[r], FALSE, currentLines'[r],
                                       lineNumber'[r], rangeColumn'[r]))]_vars

\* C3 witness: a request for A stored its index, a request for B resolved after
\* it and owns the entry, and a third request, for A again, found B's name in
\* the cache and was served the index rebuilt from its own document.
C3_Witness ==
    \E a, b, c \in Created :
        /\ a < c /\ b < c
        /\ cacheFileName[a] = cacheFileName[c]
        /\ cacheFileName[b] # cacheFileName[c]
        /\ Loaded(a) /\ Loaded(b)
        /\ seenOwner[c] = cacheFileName[b]
        /\ branch[c] = "rebuild"
        /\ items[c] = MapValues(LocalIndex(c))
        /\ items[c] # MapValues(ResolvedIndex(b))

\* C4: the cached file name and the cached index are always written together
\* by one request: either the cache was never written, or it was cleared, or
\* some resolved request stored both its file name and the whole index of its
\* own buffers.
C4_CacheWrittenByOneRequest ==
    \/ cache = UndefinedCache /\ cacheSourceFileName = Undefined
    \/ cache = DefinedCache(<<>>) /\ cacheSourceFileName = <<>>
    \/ \E w \in Created :
          /\ Loaded(w)
          /\ cacheSourceFileName = cacheFileName[w]
          /\ cache = DefinedCache(ResolvedIndex(w))

\* C4 witness: two requests for different files with different indexes have
\* resolved while both were in flight, and the cache holds the name and the
\* index of one of them.
C4_Witness ==
    \E v, w \in Created :
        /\ v # w
        /\ Loaded(v) /\ Loaded(w)
        /\ expandedSource[v] = "fulfilled" /\ expandedSource[w] = "fulfilled"
        /\ cacheFileName[v] # cacheFileName[w]
        /\ ResolvedIndex(v) # ResolvedIndex(w)
        /\ cacheSourceFileName = cacheFileName[w]
        /\ cache = DefinedCache(ResolvedIndex(w))

\* C5: when the mode is "local", the items generate() resolves with are the
\* index built from the lines of that same request.
C5_LocalModeReturnsOwnIndex ==
    \A r \in Instances :
        sourceOfCompletions[r] = "local" => items[r] = MapValues(LocalIndex(r))

\* C6: when the mode asks for expansion and the provider succeeds, generate()
\* resolves after the merged index was stored, and with that merged index.
C6_ExpandedModeReturnsMergedIndex ==
    \A r \in Instances :
        (generatePromise[r] = "resolved" /\ sourceOfCompletions[r] = "expanded")
            => /\ expandedSource[r] = "fulfilled"
               /\ items[r] = MapValues(MergedIndex(r))

\* C7: while the mode promise or the expansion promise of a request is
\* pending, the promise generate() returned is pending.
C7_PendingProviderKeepsGeneratePending ==
    \A r \in Instances :
        (sourceOfCompletions[r] = "pending" \/ expandedSource[r] = "pending")
            => generatePromise[r] = "pending"

\* C8: getExpandedSource is called for a request only after the mode promise of
\* that request was fulfilled.
C8_ExpansionOnlyAfterMode ==
    \A r \in Instances :
        expandedSource[r] # "none" => sourceOfCompletions[r] \in Sources

\* C8 witness: the expansion of a request is being fetched, its mode known.
C8_Witness ==
    \E r \in Created :
        expandedSource[r] = "pending" /\ sourceOfCompletions[r] = "expanded"

\* C9: a request whose mode is "local" never calls getExpandedSource.
C9_LocalModeNeverExpands ==
    \A r \in Instances :
        sourceOfCompletions[r] = "local" => expandedSource[r] = "none"

\* C9 witness: a request in mode "local" has resolved and stored its index.
C9_Witness ==
    \E r \in Created :
        /\ sourceOfCompletions[r] = "local"
        /\ Loaded(r)
        /\ cache = DefinedCache(LocalIndex(r))

\* C10: the lookup of generate() hits only for the file name that is stored:
\* a request served from the cache saw its own file name there and got the
\* index a resolved request stored under that name; a request that saw another
\* name (or none) was handled as absent and got its own rebuilt index.
C10_SingleSlotLookup ==
    \A r \in Created :
        /\ branch[r] = "cache" <=> seenOwner[r] = cacheFileName[r]
        /\ branch[r] = "cache"
              => \E w \in Created :
                    /\ Loaded(w)
                    /\ cacheFileName[w] = cacheFileName[r]
                    /\ items[r] = MapValues(ResolvedIndex(w))
        /\ branch[r] # "cache"
              => /\ branch[r] = "rebuild"
                 /\ items[r] = MapValues(LocalIndex(r))

\* C10 witness: idx1 was stored under id1 and a lookup with id1 got idx1 (not
\* the index of its own document); a later lookup with another identity, made
\* while id1 owned the entry, was handled as absent.
C10_Witness ==
    \E a, b, c \in Created :
        /\ a < b /\ b < c
        /\ cacheFileName[a] = cacheFileName[b]
        /\ cacheFileName[b] # cacheFileName[c]
        /\ Loaded(a)
        /\ branch[b] = "cache"
        /\ items[b] = MapValues(ResolvedIndex(a))
        /\ items[b] # MapValues(LocalIndex(b))
        /\ seenOwner[c] = cacheFileName[a]
        /\ branch[c] = "rebuild"

\* C11: after clearCache() the cache is empty for every file name: a request
\* that is made while the cache is in the cleared state (an empty index, the
\* empty name), whatever its own cache file name, takes the rebuild branch and
\* resolves with the index of its own lines.
C11_ClearedCacheIsAbsent ==
    [][\A r \in Instances :
          (/\ created = r - 1 /\ created' = r
           /\ cache = DefinedCache(<<>>) /\ cacheSourceFileName = <<>>)
              => /\ branch'[r] = "rebuild"
                 /\ items'[r] = MapValues(GenerateParagraphCompletion(
                                     currentLines'[r], FALSE, currentLines'[r],
                                     lineNumber'[r], rangeColumn'[r]))]_vars

\* C12: the entry of a document is destroyed when the document is closed: a
\* request for that document that is made while the cache holds the very
\* entry (name and index) it held when the document was closed is not served
\* from the cache.
C12_ClosedDocumentIsNotReused ==
    [][\A r \in Instances :
          (/\ created = r - 1 /\ created' = r
           /\ closedEntry.owner = cacheFileName'[r]
           /\ cacheSourceFileName = closedEntry.owner
           /\ cache = closedEntry.cache)
              => branch'[r] # "cache"]_vars

\* C13: every item a request was resolved with is anchored at the position of
\* that request: its range starts and ends at the line of the request and at
\* the column where the word under the cursor of the request starts, whether
\* the items were built for the request or taken from the cache.
C13_ItemsAnchoredAtRequest ==
    \A r \in Created :
        \A i \in 1..Len(items[r]) :
            /\ items[r][i].startLine = lineNumber[r]
            /\ items[r][i].endLine = lineNumber[r]
            /\ items[r][i].startCharacter = rangeColumn[r]
            /\ items[r][i].endCharacter = rangeColumn[r]

\* the rows (0-based) of the lines that declare the paragraph name
DeclarationRows(lines, name) ==
    {row \in 0..(Len(lines) - 1) : GetDeclaracaoParagrafo(lines[row + 1]) = <<name>>}

\* an index was built over one buffer, nothing merged into it
IsBuildCall == call.op = "generateParagraphCompletion" /\ ~call.useCache

\* C14: the index built over a buffer has no key twice, and the record of a
\* name is the one built from the comment block of the first line that
\* declares the name.
C14_FirstOccurrenceWins ==
    IsBuildCall =>
        /\ \A i, j \in 1..Len(call.result) :
               i # j => call.result[i].key # call.result[j].key
        /\ \A i \in 1..Len(call.result) :
               call.result[i].value =
                   CreateParagraphCompletion(
                       call.result[i].key,
                       GetElementDocumentation(
                           call.lines,
                           Min(DeclarationRows(call.lines, call.result[i].key))),
                       call.lineNumber, call.rangeColumn)

\* an index was built over a buffer and the index of the lines of the
\* instance was merged into it
IsMergeCall == call.op = "generateParagraphCompletion" /\ call.useCache

\* the index over the buffer given (the expanded source)
ExpandedPart == GenerateLocal(call.lines, call.lineNumber, call.rangeColumn)

\* the index over the lines of the instance (the local source)
LocalPart == GenerateLocal(call.currentLines, call.lineNumber, call.rangeColumn)

\* Map.prototype.keys() as a set
MapKeys(m) == {m[i].key : i \in 1..Len(m)}

\* Map.prototype.get for a key the map has
MapGet(m, key) == m[CHOOSE i \in 1..Len(m) : m[i].key = key].value

\* C15: for every key that both the index of the expanded buffer and the
\* index of the local lines have, the merged index holds the record of the
\* expanded buffer.
C15_ExpandedRecordWins ==
    IsMergeCall =>
        \A key \in MapKeys(ExpandedPart) \cap MapKeys(LocalPart) :
            /\ MapHas(call.result, key)
            /\ MapGet(call.result, key) = MapGet(ExpandedPart, key)

\* C15 witness: a merge in which a key is in both indexes with different
\* documentation, and the merged record is the expanded one.
C15_Witness ==
    /\ IsMergeCall
    /\ \E key \in MapKeys(ExpandedPart) \cap MapKeys(LocalPart) :
           /\ MapGet(ExpandedPart, key).detail # MapGet(LocalPart, key).detail
           /\ MapGet(call.result, key) = MapGet(ExpandedPart, key)

\* C16: the keys of the merged index are the keys of the index of the
\* expanded buffer together with the keys of the index of the local lines,
\* each once.
C16_MergeIsUnionOfKeys ==
    IsMergeCall =>
        /\ MapKeys(call.result) = MapKeys(ExpandedPart) \cup MapKeys(LocalPart)
        /\ Len(call.result) = Cardinality(MapKeys(call.result))

\* C16 witness: a merge in which one key is only in the local index, one only
\* in the expanded index, and the merged index has both.
C16_Witness ==
    /\ IsMergeCall
    /\ MapKeys(LocalPart) \ MapKeys(ExpandedPart) # {}
    /\ MapKeys(ExpandedPart) \ MapKeys(LocalPart) # {}
    /\ Len(call.result) = 2

\* the index was built over the buffer of two paragraphs with a comment line
\* between them
IsScenarioCall == IsBuildCall /\ call.lines = ScenarioBuffer

NameParaA == <<"P","A","R","A","-","A">>

NameParaB == <<"P","A","R","A","-","B">>

SummaryDoesA == <<"D","o","e","s"," ","A">>

\* C17, as the code has it: the index of the buffer has exactly the entries
\* PARA-A and PARA-B, in this order; PARA-A, with no comment above it, has the
\* empty summary, and PARA-B, under the comment line, has the summary
\* "Does A" (dots stripped, blanks at the ends aside).
C17_ScenarioIndexAsBuilt ==
    IsScenarioCall =>
        /\ Len(call.result) = 2
        /\ call.result[1].key = NameParaA
        /\ call.result[1].value.detail = <<>>
        /\ call.result[2].key = NameParaB
        /\ Trim(call.result[2].value.detail) = SummaryDoesA

\* C17, as stated: the index of the buffer has exactly the entries PARA-A and
\* PARA-B; PARA-A has the summary "Does A" and PARA-B the empty summary.
C17_ScenarioIndexAsStated ==
    IsScenarioCall =>
        /\ Len(call.result) = 2
        /\ call.result[1].key = NameParaA
        /\ Trim(call.result[1].value.detail) = SummaryDoesA
        /\ call.result[2].key = NameParaB
        /\ call.result[2].value.detail = <<>>

\* C17 witness: the index of the buffer was built and has its two entries.
C17_Witness ==
    /\ IsScenarioCall
    /\ MapKeys(call.result) = {NameParaA, NameParaB}

\* a comment block was parsed
IsParseCall == call.op = "parseCobolDoc"

\* some line of the block has the opener of a structured block in it
HasOpener(documentation) ==
    \E i \in 1..Len(documentation) : Includes(documentation[i], RechDocOpen)

\* some line of the block is a freeform line
HasFreeform(documentation) ==
    \E i \in 1..Len(documentation) :
        StartsWith(Trim(documentation[i]), DefaultDocOpen)

\* C18: a block in which some line contains *>/** is parsed by the structured
\* path, also when it has freeform lines, and a block without it by the
\* freeform path: the result is that of exactly the one path.
C18_DialectIsBinary ==
    IsParseCall =>
        IF HasOpener(call.documentation)
        THEN call.result = ExtractRechDoc(call.documentation)
        ELSE call.result = ExtractDefaultDoc(call.documentation)

\* C18 witness: a block with the opener, not in its first line, and with a
\* freeform line was parsed; the two paths differ on it, and the result is the
\* structured one.
C18_Witness ==
    /\ IsParseCall
    /\ HasOpener(call.documentation)
    /\ HasFreeform(call.documentation)
    /\ ~Includes(call.documentation[1], RechDocOpen)
    /\ ExtractRechDoc(call.documentation) # ExtractDefaultDoc(call.documentation)
    /\ call.result = ExtractRechDoc(call.documentation)

-----------------------------------------------------------------------------
IsExitParagraphCall == call.op = "exitParagraph"

IsPerformCall == call.op = "perform"

\* the text between the keyword of n characters and the operand of m
\* characters of an insertion text that ends with its separator
PaddingOf(text, n, m, separator) ==
    SubSeq(text, n + 1, Len(text) - Len(separator) - m)

\* C20: whenever the reference column of a keyword completion (the cursor
\* column plus 3 for EXIT PARAGRAPH, plus 6 for PERFORM) is at or past the
\* target column 35, the insertion text is the keyword, exactly one space, the
\* operand and the separator: the padding is never empty and a text is returned.
C20_PaddingIsClamped ==
    /\ (IsExitParagraphCall /\ call.column + 3 >= 35) =>
           /\ call.result = <<"E","X","I","T">> \o <<" ">>
                                \o <<"P","A","R","A","G","R","A","P","H">>
                                \o call.separator
           /\ PaddingOf(call.result, 4, 9, call.separator) = <<" ">>
    /\ (IsPerformCall /\ call.column + 6 >= 35) =>
           /\ call.result = <<"p","e","r","f","o","r","m">> \o <<" ">>
                                \o <<"$","{","0","}">> \o call.separator
           /\ PaddingOf(call.result, 7, 4, call.separator) = <<" ">>

\* EXIT PARAGRAPH is completed at cursor column 35, reference column 38, and
\* its padding is one space
C20_Witness ==
    /\ IsExitParagraphCall
    /\ call.column + 3 = 38
    /\ PaddingOf(call.result, 4, 9, call.separator) = <<" ">>

-----------------------------------------------------------------------------
IsExitPerformCall == call.op = "exitPerform"

IsSetCall == call.op = "set"

IsValueCall == call.op = "value"

Exit == <<"E","X","I","T">>

Dollar0 == <<"$","{","0","}">>

\* text is keyword, then k >= 1 spaces, then rest, and rest begins at column
\* target once text is inserted at column
BeginsAt(text, column, keyword, rest, target) ==
    \E k \in 1..target :
        /\ text = keyword \o Spaces(k) \o rest
        /\ column + Len(keyword) + k = target

\* the part of the text of the VALUE clause after its padding
ValueClause(text) ==
    SubSeq(text, Min({i \in 1..Len(text) : text[i] # " "}), Len(text))

\* what C21 states of the call made, the keyword counted as fitting when at
\* least spare columns remain between its last column and the target
OperandAtFixedColumn(spare) ==
    /\ (IsExitParagraphCall /\ call.column + 4 + spare <= 35) =>
           BeginsAt(call.result, call.column, Exit,
                    <<"P","A","R","A","G","R","A","P","H">> \o call.separator, 35)
    /\ (IsExitPerformCall /\ call.column + 4 + spare <= 35) =>
           BeginsAt(call.result, call.column, Exit,
                    <<"P","E","R","F","O","R","M">> \o call.separator, 35)
    /\ (IsPerformCall /\ call.column + 7 + spare <= 35) =>
           BeginsAt(call.result, call.column, <<"p","e","r","f","o","r","m">>,
                    Dollar0 \o call.separator, 35)
    /\ (IsSetCall /\ call.column + 3 + spare <= 20) =>
           BeginsAt(call.result, call.column, <<"s","e","t">>, Dollar0, 20)
    /\ (IsValueCall /\ call.column + spare <= 51) =>
           BeginsAt(call.result, call.column, <<>>, ValueClause(call.result), 51)

\* C21: for every cursor column that leaves room for the keyword and at least
\* one space before the target, the insertion text is the keyword, then only
\* spaces, then the operand, and the operand begins at column 35 (EXIT
\* PARAGRAPH, EXIT PERFORM, PERFORM), 20 (SET) or 51 (VALUE) once the text is
\* inserted at the cursor column.
C21_OperandAtFixedColumn == OperandAtFixedColumn(1)

\* C21 as stated: the same for every cursor column at which the keyword ends
\* before the target, the column directly before the target included
C21_OperandAtFixedColumnAsStated == OperandAtFixedColumn(0)

\* SET is completed at cursor column 11 and its operand begins at column 20
C21_Witness ==
    /\ IsSetCall
    /\ call.column = 11
    /\ call.result = <<"s","e","t">> \o Spaces(6) \o Dollar0

-----------------------------------------------------------------------------
\* C22: the VALUE completion chooses its clause by exactly one of four cases of
\* the variable: alphanumeric gives value is spaces; numeric display gives
\* value is zeros with no comp; numeric non-display with decimal or negative
\* sign gives value is zeros comp; numeric non-display without decimal and
\* without negative sign gives value is zeros comp-x (the words being the
\* defaults of the snippet's placeholders). The text always ends with a period.
C22_ValueClauseByPicture ==
    IsValueCall =>
        /\ call.result[Len(call.result)] = "."
        /\ ValueClause(call.result) =
               (CASE call.variable.type = "Alphanumeric" ->
                        ValueIsSpaces \o <<".">>
                  [] call.variable.type # "Alphanumeric" /\ call.variable.display ->
                        ValueIsZeros \o <<".">>
                  [] call.variable.type # "Alphanumeric" /\ ~call.variable.display
                        /\ (call.variable.type = "Decimal" \/ call.variable.allowNegative) ->
                        ValueIsZeros \o Comp \o <<".">>
                  [] call.variable.type # "Alphanumeric" /\ ~call.variable.display
                        /\ call.variable.type # "Decimal" /\ ~call.variable.allowNegative ->
                        ValueIsZeros \o CompX \o <<".">>)

\* a signed integer variable for computing is completed with comp
C22_Witness ==
    /\ IsValueCall
    /\ call.variable = [type |-> "Integer", display |-> FALSE, allowNegative |-> TRUE]
    /\ ValueClause(call.result) = ValueIsZeros \o Comp \o <<".">>

-----------------------------------------------------------------------------
IsDocumentationCall == call.op = "getElementDocumentation"

-----------------------------------------------------------------------------
\* the line starts with the margin of six spaces followed by the marker *>
IsCommentLine(line) ==
    /\ Len(line) >= 8
    /\ \A k \in 1..6 : line[k] = " "
    /\ line[7] = "*"
    /\ line[8] = ">"

\* the first row of the longest run of comment lines that ends directly above
\* row i
RunTop(lines, i) ==
    Min({j \in 0..i : \A k \in j..(i - 1) : IsCommentLine(lines[k + 1])})

\* C24: the comment block of a declaration at line i is the maximal contiguous
\* run of the lines i-1, i-2, ... that start with six spaces and *>, in source
\* order; the walk stops at the first line that does not match, a blank line
\* included, and no line above that line is in the block.
C24_BlockIsMaximalRunAbove ==
    (IsDocumentationCall /\ call.lineIndex \in 0..Len(call.lines)) =>
        call.result =
            Returned(SubSeq(call.lines, RunTop(call.lines, call.lineIndex) + 1,
                            call.lineIndex))

\* a comment, a blank line, a comment and a declaration: the block of the
\* declaration is the one comment under the blank line
C24_Witness ==
    /\ IsDocumentationCall
    /\ call.lines = <<LineOne, LineBlank, LineTwo, LinePA>>
    /\ call.lineIndex = 3
    /\ call.result = Returned(<<LineTwo>>)

-----------------------------------------------------------------------------
IsScanCall == call.op = "scan"

\* the line begins with exactly seven spaces, then a name token, then a period
IsDeclarationLine(line) ==
    /\ Len(line) >= 9
    /\ \A k \in 1..7 : line[k] = " "
    /\ line[8] \in WordChars
    /\ StartsWithAt(line, RunEnd(line, 9, WordChars), <<".">>)

\* C25: the scan produces an occurrence only for a line that begins with
\* exactly seven spaces, a name token and a period: there are as many
\* occurrences as such lines and each is in the row of one; a line with fewer
\* or more leading spaces or without the period directly after its name
\* produces none, whatever its neighbouring lines are.
C25_OccurrencesAreDeclarationLines ==
    IsScanCall =>
        /\ Len(call.result) =
               Cardinality({row \in 1..Len(call.lines) : IsDeclarationLine(call.lines[row])})
        /\ \A k \in 1..Len(call.result) :
               IsDeclarationLine(call.lines[call.result[k].row + 1])

-----------------------------------------------------------------------------
IsRechCall == call.op = "extractRechDoc"

\* the line is the opener, the closer, of a structured block
IsOpenerLine(line) == StartsWith(Trim(line), RechDocOpen)

IsCloserLine(line) == ~IsOpenerLine(line) /\ StartsWith(Trim(line), RechDocClose)

\* the row of the last opener above row k, 0 when there is none
LastOpener(doc, k) == Max({0} \cup {j \in 1..(k - 1) : IsOpenerLine(doc[j])})

\* row k is after the opener at row o with no closer between them
OpenSince(doc, o, k) ==
    /\ o > 0
    /\ \A j \in (o + 1)..k : ~IsCloserLine(doc[j])

\* row k is a line inside a block: under an opener not closed yet, and not an
\* opener itself
InsideBlock(doc, k) == ~IsOpenerLine(doc[k]) /\ OpenSince(doc, LastOpener(doc, k), k)

InsideRows(doc) == {k \in 1..Len(doc) : InsideBlock(doc, k)}

\* the rows that are not outside every block: openers, closers, lines inside
BlockRows(doc) ==
    {k \in 1..Len(doc) :
        IsOpenerLine(doc[k]) \/ IsCloserLine(doc[k]) \/ InsideBlock(doc, k)}

\* the lines of the rows, in their order, rows being sorted
PickSorted(doc, rows) == [i \in 1..Len(rows) |-> doc[rows[i]]]

Pick(doc, rows) == PickSorted(doc, Sorted(rows))

EmptyDoc == CobolDoc(<<>>, <<>>, <<>>, <<>>)

\* C26: parsing starts outside; a block is entered only on an opener line and
\* left on the closer; a line processed outside, before the opener or after
\* the closer, contributes nothing to summary, parameters, returns or throws:
\* the result is that of the block lines alone, and empty when no line is
\* inside a block.
C26_OutsideLinesContributeNothing ==
    IsRechCall =>
        /\ call.result = ExtractRechDoc(Pick(call.documentation,
                                             BlockRows(call.documentation)))
        /\ InsideRows(call.documentation) = {} => call.result = EmptyDoc

\* a parameter line before the opener and a text line after the closer: only
\* the line between opener and closer is in the result
C26_Witness ==
    /\ IsRechCall
    /\ call.documentation = <<DocParam, DocOpener, DocSummary, DocCloser, DocMore>>
    /\ call.result = CobolDoc(<<"S","u","m","."," ">>, <<>>, <<>>, <<>>)

-----------------------------------------------------------------------------
TagWords == {TagParam, TagReturn, TagThrows, TagEnum, TagOptional, TagDefault, TagExtends}

HasTagWord(line) == \E tag \in TagWords : Includes(line, tag)

\* row k is inside a block and no line from the opener of the block down to
\* row k has a tag
Accumulating(doc, k) ==
    /\ InsideBlock(doc, k)
    /\ \A j \in (LastOpener(doc, k) + 1)..k : ~HasTagWord(doc[j])

\* the line without its marker, trimmed
SummaryText(line) == Trim(Replace(line, CommentMarker, <<>>))

\* the texts of the accumulating non-blank rows from row k on, each followed
\* by one space
RECURSIVE SummaryFrom(_, _)
SummaryFrom(doc, k) ==
    IF k > Len(doc) THEN <<>>
    ELSE (IF Accumulating(doc, k) /\ SummaryText(doc[k]) # <<>>
          THEN SummaryText(doc[k]) \o <<" ">>
          ELSE <<>>) \o SummaryFrom(doc, k + 1)

\* no line inside a block has the tag
NoLineWith(doc, tag) == \A k \in InsideRows(doc) : ~Includes(doc[k], tag)

\* C27: inside a block the summary stops at the first line with a parameter,
\* return, throws, enum, optional, default or extends tag and is not resumed
\* in that block: it is made of the non-blank lines between the opener and
\* that line, each without its marker, trimmed and followed by one space; a
\* line of the enum, optional, default, extends family adds no entry to
\* parameters, returns or throws.
C27_SummaryStopsAtFirstTag ==
    IsRechCall =>
        /\ call.result.comment = SummaryFrom(call.documentation, 1)
        /\ NoLineWith(call.documentation, TagParam) => call.result.params = <<>>
        /\ NoLineWith(call.documentation, TagReturn) => call.result.returns = <<>>
        /\ NoLineWith(call.documentation, TagThrows) => call.result.throws = <<>>

\* a text line, an enum line and a second text line: the summary is the first
\* text line alone and there is no entry
C27_Witness ==
    /\ IsRechCall
    /\ call.documentation = <<DocOpener, DocSummary, DocEnum, DocMore>>
    /\ call.result = CobolDoc(<<"S","u","m","."," ">>, <<>>, <<>>, <<>>)

-----------------------------------------------------------------------------
\* rest starts with the tag, one blank and a name token
StartsWithTagAndName(rest, tag) ==
    /\ StartsWith(rest, tag)
    /\ Len(rest) >= Len(tag) + 2
    /\ rest[Len(tag) + 1] \in WhiteSpace
    /\ rest[Len(tag) + 2] \in WordChars

\* the line is a tag line of the tag with a name token: marker, tag, name
IsLineOfTag(line, tag) ==
    /\ StartsWith(Trim(line), CommentMarker)
    /\ StartsWithTagAndName(SummaryText(line), tag)

\* one entry for each line of the tag inside a block, from row k on
RECURSIVE EntriesOfTag(_, _, _)
EntriesOfTag(doc, tag, k) ==
    IF k > Len(doc) THEN <<>>
    ELSE (IF InsideBlock(doc, k) /\ IsLineOfTag(doc[k], tag)
          THEN CreateDocElementFromLine(doc[k])
          ELSE <<>>) \o EntriesOfTag(doc, tag, k + 1)

\* C28: every tag line with a name token inside a block appends exactly one
\* entry, and only to the list of its own tag: the parameters are the entries
\* of the parameter lines, the returns those of the return lines, the throws
\* those of the throws lines, each in source order, and no line adds to two
\* lists.
C28_EntriesOnlyInOwnList ==
    IsRechCall =>
        /\ \A k \in InsideRows(call.documentation) :
               \A tag \in {TagParam, TagReturn, TagThrows} :
                   IsLineOfTag(call.documentation[k], tag) =>
                       Len(CreateDocElementFromLine(call.documentation[k])) = 1
        /\ call.result.params = EntriesOfTag(call.documentation, TagParam, 1)
        /\ call.result.returns = EntriesOfTag(call.documentation, TagReturn, 1)
        /\ call.result.throws = EntriesOfTag(call.documentation, TagThrows, 1)

-----------------------------------------------------------------------------
\* the line is a parameter, return or throws tag line with no name token
IsMalformedTagLine(line) ==
    /\ StartsWith(Trim(line), CommentMarker)
    /\ \E tag \in {TagParam, TagReturn, TagThrows} :
           /\ StartsWith(SummaryText(line), tag)
           /\ ~StartsWithTagAndName(SummaryText(line), tag)

WellFormedRows(doc) == {k \in 1..Len(doc) : ~IsMalformedTagLine(doc[k])}

HasMalformedInside(doc) == \E k \in InsideRows(doc) : IsMalformedTagLine(doc[k])

\* the three lists of entries of a result
Entries(doc) == <<doc.params, doc.returns, doc.throws>>

\* C29: a parameter, return or throws line with no name token adds no record
\* and raises no error, and the other tag lines of the block, before and after
\* it, are recorded as if the line were not there.
C29_MalformedTagIsDropped ==
    IsRechCall =>
        Entries(call.result) =
            Entries(ExtractRechDoc(Pick(call.documentation,
                                        WellFormedRows(call.documentation))))

\* a parameter line, a parameter tag without name and a return line: the two
\* well-formed lines are recorded
C29_Witness ==
    /\ IsRechCall
    /\ call.documentation = <<DocOpener, DocParam, DocParamNoName, DocReturn>>
    /\ HasMalformedInside(call.documentation)
    /\ call.result.params = <<DocElement(<<"a">>, <<"b">>)>>
    /\ call.result.returns = <<DocElement(<<"r">>, <<"o","f">>)>>
    /\ call.result.throws = <<>>

-----------------------------------------------------------------------------
\* the line is blank once its marker is stripped
IsBlankLine(line) == SummaryText(line) = <<>>

NonBlankRows(doc) == {k \in 1..Len(doc) : ~IsBlankLine(doc[k])}

HasBlankWhileAccumulating(doc) ==
    \E k \in 1..Len(doc) : Accumulating(doc, k) /\ IsBlankLine(doc[k])

\* C30: a line inside a block that is blank after its marker is stripped
\* leaves the summary unchanged: the summary equals that of the same
\* documentation without its blank lines, and holds no line break.
C30_BlankLinesLeaveSummary ==
    IsRechCall =>
        /\ call.result.comment =
               ExtractRechDoc(Pick(call.documentation,
                                   NonBlankRows(call.documentation))).comment
        /\ \A i \in 1..Len(call.result.comment) : call.result.comment[i] # NL

\* a blank line between two text lines: the summary is the two texts
C30_Witness ==
    /\ IsRechCall
    /\ call.documentation = <<DocOpener, DocSummary, DocBlank, DocMore>>
    /\ HasBlankWhileAccumulating(call.documentation)
    /\ call.result.comment = <<"S","u","m","."," ","M","o","r","e"," ">>

-----------------------------------------------------------------------------
IsDefaultCall == call.op = "extractDefaultDoc"

\* the line begins with the marker *>->
IsFreeformLine(line) == StartsWith(Trim(line), DefaultDocOpen)

\* text without the marker <-<* at its end, when it ends with it
WithoutTrailingMarker(text) ==
    IF EndsWith(text, DefaultDocClose)
    THEN SubSeq(text, 1, Len(text) - Len(DefaultDocClose))
    ELSE text

\* text without the periods at its end
WithoutTrailingDots(text) ==
    SubSeq(text, 1, Max({0} \cup {i \in 1..Len(text) : text[i] # "."}))

\* text, that begins with *>->, without that marker
WithoutLeadingMarker(text) == SubSeq(text, Len(DefaultDocOpen) + 1, Len(text))

\* the fragment of a freeform line: the line without *>-> and without the
\* trailing <-<*, trimmed, without trailing periods
Fragment(line) ==
    WithoutTrailingDots(Trim(WithoutTrailingMarker(WithoutLeadingMarker(Trim(line)))))

\* the fragments of the freeform lines from row k on, each followed by a space
RECURSIVE FragmentsFrom(_, _)
FragmentsFrom(doc, k) ==
    IF k > Len(doc) THEN <<>>
    ELSE (IF IsFreeformLine(doc[k]) THEN Fragment(doc[k]) \o <<" ">> ELSE <<>>)
         \o FragmentsFrom(doc, k + 1)

\* C31: in the freeform dialect every line that begins with *>-> contributes
\* one fragment, the line without that marker and without the trailing <-<*
\* marker and without trailing periods, followed by one space; a fragment
\* never ends with a period; other lines contribute nothing; parameters,
\* returns and throws are empty.
C31_FreeformFragments ==
    IsDefaultCall =>
        /\ call.result.comment = FragmentsFrom(call.documentation, 1)
        /\ \A k \in 1..Len(call.documentation) :
               IsFreeformLine(call.documentation[k]) =>
                   ~EndsWith(Fragment(call.documentation[k]), <<".">>)
        /\ call.result.params = <<>>
        /\ call.result.returns = <<>>
        /\ call.result.throws = <<>>

-----------------------------------------------------------------------------
\* the index request r stored when its expanded source arrived
ExpandedIndex(r) ==
    DefinedCache(GenerateParagraphCompletion(Split(expandedBuffer[r]), TRUE, currentLines[r],
                                             lineNumber[r], rangeColumn[r]))

\* the expanded source of the older request older arrives while the cache
\* holds the index that the newer request newer of the same file stored
LateCompletion(older, newer) ==
    /\ older < newer
    /\ newer <= created
    /\ cacheFileName[older] = cacheFileName[newer]
    /\ expandedSource[newer] = "fulfilled"
    /\ cacheSourceFileName = cacheFileName[newer]
    /\ cache = ExpandedIndex(newer)
    /\ expandedSource[older] = "pending"
    /\ expandedSource'[older] = "fulfilled"

\* C32: when requests for the same file identity are in flight and their
\* expanded sources arrive in any order, the late arrival for an older request
\* does not overwrite the entry a newer request stored, so the cache ends with
\* the index of the request issued last.
C32_LateCompletionKeepsNewerEntry ==
    [][\A older \in Instances, newer \in Instances :
           LateCompletion(older, newer) => cache' = cache]_vars

-----------------------------------------------------------------------------
\* the promise of the source of completions of request r rejects in this step
ModeRejects(r) ==
    /\ sourceOfCompletions[r] = "pending"
    /\ sourceOfCompletions'[r] = "rejected"

\* C33: if the promise of the source of completions rejects, the request never
\* asks for the expanded source, and the rejection leaves the cached owner
\* identity and the cached index unchanged.
C33_ModeRejectionLeavesCache ==
    [][\A r \in Instances :
           /\ sourceOfCompletions'[r] = "rejected" => expandedSource'[r] = "none"
           /\ ModeRejects(r) => /\ cache' = cache
                                /\ cacheSourceFileName' = cacheSourceFileName]_vars

\* the promise of a request rejected while the cache holds an index, and the
\* request asked for no expanded source
C33_Witness ==
    \E r \in Instances :
        /\ sourceOfCompletions[r] = "rejected"
        /\ expandedSource[r] = "none"
        /\ cache.defined
        /\ cacheSourceFileName = cacheFileName[r]

-----------------------------------------------------------------------------
\* request r stored an index in the cache
StoredIndex(r) ==
    /\ r <= created
    /\ sourceOfCompletions[r] = "local" \/ expandedSource[r] = "fulfilled"

\* request r took its items from the cache
ReusedCache(r) == r <= created /\ branch[r] = "cache"

\* C34: distinct documents never share a cache entry: a request for the
\* document of a URI takes its items from the cache only if an earlier request
\* for the same URI stored an index.
C34_CacheReusedForSameUriOnly ==
    \A r \in Instances :
        ReusedCache(r) => \E builder \in 1..(r - 1) :
                              StoredIndex(builder) /\ uri[builder] = uri[r]

-----------------------------------------------------------------------------
IsFindStartCall == call.op = "findStartColumn"

IsTryLine(text) ==
    /\ ~StartsWith(ToLowerCase(Trim(text)), EndTryWord)
    /\ StartsWith(ToLowerCase(Trim(text)), TryWord)

IsEndTryLine(text) == StartsWith(ToLowerCase(Trim(text)), EndTryWord)

\* the end-try lines less the try lines among rows i..line (0-based)
OpenDepth(lines, i, line) ==
    Cardinality({k \in i..line : IsEndTryLine(lines[k + 1])})
        - Cardinality({k \in i..line : IsTryLine(lines[k + 1])})

\* row j holds a try that no end-try between it and row line closes, with no
\* declaration from row j to row line
IsOpenTry(lines, j, line) ==
    /\ IsTryLine(lines[j + 1])
    /\ \A k \in j..line : ~IsTheParagraphOrMethodDeclaration(lines[k + 1])
    /\ OpenDepth(lines, j, line) < 0
    /\ \A k \in (j + 1)..line : OpenDepth(lines, k, line) >= 0

OpenTries(lines, line) == {j \in 0..line : IsOpenTry(lines, j, line)}

\* C35: findStartColumn returns the indentation of the nearest line at or
\* above the current line, down to the first line of the file and not past a
\* paragraph or method declaration, that starts with try and is not closed by
\* an end-try between it and the current line (nested pairs skipped by depth
\* counting); the indentation of the current line when there is none.
C35_StartColumnOfOpenTry ==
    IsFindStartCall =>
        call.result =
            (IF OpenTries(call.lines, call.line) # {}
             THEN CountSpacesAtBeginning(call.lines[Max(OpenTries(call.lines, call.line)) + 1])
             ELSE CountSpacesAtBeginning(call.lines[call.line + 1]))

====
